---- MODULE Spec2Model ----
(***************************************************************************)
(* Model of the job-scraping pipeline: the LeadAgent orchestrator          *)
(* (magents/lead_agent.py), the WebAgent it drives (magents/web_agent.py)  *)
(* and the careers-link finder of JobMatchingTool                          *)
(* (tools/job_matching_tool.py).  Python strings are TLA+ strings; Python  *)
(* None is the reserved string None.                                       *)
(***************************************************************************)
EXTENDS Integers, Sequences, FiniteSets, TLC

VARIABLES
    pc,               \* position inside process_job_request
    job_params,       \* the caller's request dict
    company_url,      \* local of process_job_request
    careers_url,      \* local of process_job_request
    careers_analysis, \* local of process_job_request
    job_listings_url, \* local of process_job_request
    specific_job_url, \* local of process_job_request
    job_data,         \* local of process_job_request
    page_content,     \* local of the running stage: last scrape result
    decision,         \* local of _find_job_listings
    job_links_result, \* local of _find_specific_job
    best_match,       \* local of _find_specific_job
    current_url,      \* web_nav_tool.current_url
    result,           \* value returned by process_job_request
    started,          \* history: stages started, in order
    returned,         \* history: stages that returned normally, in order
    nav_failed,       \* history: number of stages started when a navigation first failed, 0 if none
    cancelled,        \* history: number of stages started when cancellation was signalled, -1 if not
    calls,            \* history: collaborator calls made, in order
    fc_html,          \* find_careers_link: the links of the page, in document order
    fc_base,          \* find_careers_link: base_url argument
    fc_result,        \* find_careers_link: returned dict
    fc_pc,            \* find_careers_link: "call" before the call, "ret" after
    el_html,          \* _extract_all_links: the a[href] elements of the page
    el_base,          \* _extract_all_links: base_url argument
    el_links,         \* _extract_all_links: returned list
    el_again,         \* the returned URLs resolved against base_url once more
    el_pc,            \* _extract_all_links: "call", "ret", then "again"
    rs_text,          \* relevance score: link text
    rs_url,           \* relevance score: link url
    rs_keyword,       \* relevance score: the keyword whose occurrence is added
    rs_scores,        \* relevance score: <<score of text, score of text with the occurrence>>
    rs_pc,            \* relevance score: "call" before scoring, "ret" after
    jl_html,          \* _find_job_links: the a elements of the page
    jl_base,          \* _find_job_links: base_url argument
    jl_result,        \* _find_job_links: returned list
    jl_pc,            \* _find_job_links: "call" before the call, "ret" after
    bm_links,         \* find_best_match: job_links argument
    bm_title,         \* find_best_match: job_title argument
    bm_location,      \* find_best_match: location argument
    bm_matches,       \* find_best_match: matches after the scoring loop
    bm_result,        \* find_best_match: returned dict
    bm_pc,            \* find_best_match: "call" before the call, "ret" after
    sj_forms,         \* search_jobs_on_page: what extract_forms returns
    sj_fill,          \* search_jobs_on_page: outcome of the fill interaction
    sj_submit,        \* search_jobs_on_page: outcome of the submit interaction
    sj_log,           \* search_jobs_on_page: interactions sent to the page, in order
    sj_result,        \* search_jobs_on_page: returned dict
    sj_pc,            \* search_jobs_on_page: "call", then "ret" or "raised"
    hj_html,          \* _llm_analyze_jobs_heuristic: the elements of the page
    hj_title,         \* _llm_analyze_jobs_heuristic: job_title argument
    hj_url,           \* _llm_analyze_jobs_heuristic: web_navigator.current_url
    hj_result,        \* _llm_analyze_jobs_heuristic: returned dict
    hj_pc,            \* _llm_analyze_jobs_heuristic: "call" before the call, "ret" after
    xd_page,          \* extract_job_data: the parsed html_content
    xd_params,        \* extract_job_data: job_params argument
    xd_result,        \* extract_job_data: returned dict
    xd_log,           \* extract_job_data: the calls made so far on this tool, in order
    xd_pc             \* extract_job_data: "call" before the call, "ret" after

vars == <<pc, job_params, company_url, careers_url, careers_analysis,
          job_listings_url, specific_job_url, job_data, page_content,
          decision, job_links_result, best_match, current_url, result, started,
          returned, nav_failed, cancelled, calls,
          fc_html, fc_base, fc_result, fc_pc,
          el_html, el_base, el_links, el_again, el_pc,
          rs_text, rs_url, rs_keyword, rs_scores, rs_pc,
          jl_html, jl_base, jl_result, jl_pc,
          bm_links, bm_title, bm_location, bm_matches, bm_result, bm_pc,
          sj_forms, sj_fill, sj_submit, sj_log, sj_result, sj_pc,
          hj_html, hj_title, hj_url, hj_result, hj_pc,
          xd_page, xd_params, xd_result, xd_log, xd_pc>>

orchVars == <<pc, job_params, company_url, careers_url, careers_analysis,
              job_listings_url, specific_job_url, job_data, page_content,
              decision, job_links_result, best_match, current_url, result, started,
              returned, nav_failed, cancelled, calls>>

fcVars == <<fc_html, fc_base, fc_result, fc_pc>>
elVars == <<el_html, el_base, el_links, el_again, el_pc>>
rsVars == <<rs_text, rs_url, rs_keyword, rs_scores, rs_pc>>
jlVars == <<jl_html, jl_base, jl_result, jl_pc>>
bmVars == <<bm_links, bm_title, bm_location, bm_matches, bm_result, bm_pc>>
sjVars == <<sj_forms, sj_fill, sj_submit, sj_log, sj_result, sj_pc>>
hjVars == <<hj_html, hj_title, hj_url, hj_result, hj_pc>>
xdVars == <<xd_page, xd_params, xd_result, xd_log, xd_pc>>
moreVars == <<sjVars, hjVars, xdVars>>
toolVars == <<fcVars, elVars, rsVars, jlVars, bmVars, moreVars>>

None == "<None>"
Unset == "<unset>"

-----------------------------------------------------------------------------
(* Python string primitives *)

Min(S) == CHOOSE x \in S : \A y \in S : x <= y
Max(S) == CHOOSE x \in S : \A y \in S : x >= y

\* s.startswith(p)
StartsWith(s, p) == Len(s) >= Len(p) /\ SubSeq(s, 1, Len(p)) = p

\* s.find(k, from) with 1-based positions; 0 when k does not occur
Find(s, k, from) ==
    LET hits == {i \in from..(Len(s) - Len(k) + 1) : SubSeq(s, i, i + Len(k) - 1) = k}
    IN  IF hits = {} THEN 0 ELSE Min(hits)

\* k in s
Contains(s, k) == Find(s, k, 1) # 0

\* s[i:] with a 1-based i
From(s, i) == SubSeq(s, i, Len(s))

\* s.split(sep) for a one-character sep
RECURSIVE Split(_, _)
Split(s, sep) ==
    LET i == Find(s, sep, 1)
    IN  IF i = 0 THEN <<s>>
        ELSE <<SubSeq(s, 1, i - 1)>> \o Split(From(s, i + 1), sep)

\* sep.join(parts)
RECURSIVE Join(_, _)
Join(parts, sep) ==
    IF parts = <<>> THEN ""
    ELSE IF Len(parts) = 1 THEN parts[1]
    ELSE parts[1] \o sep \o Join(Tail(parts), sep)

-----------------------------------------------------------------------------
(* urllib.parse as used by the tools (ASCII lower-case URLs, no ;params) *)

Letters == {"a","b","c","d","e","f","g","h","i","j","k","l","m",
            "n","o","p","q","r","s","t","u","v","w","x","y","z"}
SchemeChars == Letters \cup {"0","1","2","3","4","5","6","7","8","9","+","-","."}
UsesRelative == {"", "http", "https", "ftp", "file", "wais", "gopher", "nntp",
                 "imap", "mms", "shttp", "prospero", "rtsp", "rtspu", "sftp", "svn", "svn+ssh", "ws", "wss"}
UsesNetloc == UsesRelative \cup {"telnet", "snews", "rsync", "git", "git+ssh", "nfs"}

\* urlsplit: position of the ":" that ends the scheme, 0 when there is none
SchemeEnd(u) ==
    LET i == Find(u, ":", 1)
    IN  IF /\ i > 1
           /\ SubSeq(u, 1, 1) \in Letters
           /\ \A j \in 1..(i - 1) : SubSeq(u, j, j) \in SchemeChars
        THEN i ELSE 0

\* urlsplit: end of the netloc of a "//..." remainder (_splitnetloc)
NetlocEnd(r) ==
    LET delims == {Find(r, d, 3) : d \in {"/", "?", "#"}} \ {0}
    IN  IF delims = {} THEN Len(r) + 1 ELSE Min(delims)

\* urlsplit: the part before the first occurrence of c, and the part after it
Before(r, c) == IF Contains(r, c) THEN SubSeq(r, 1, Find(r, c, 1) - 1) ELSE r
After(r, c) == IF Contains(r, c) THEN From(r, Find(r, c, 1) + 1) ELSE ""

\* urlsplit, after the scheme and the netloc were taken off
UrlsplitPath(scheme, netloc, r) ==
    [scheme   |-> scheme,
     netloc   |-> netloc,
     path     |-> Before(Before(r, "#"), "?"),
     query    |-> After(Before(r, "#"), "?"),
     fragment |-> After(r, "#")]

\* urlsplit, after the scheme was taken off
UrlsplitNetloc(scheme, r) ==
    IF StartsWith(r, "//")
    THEN UrlsplitPath(scheme, SubSeq(r, 3, NetlocEnd(r) - 1), From(r, NetlocEnd(r)))
    ELSE UrlsplitPath(scheme, "", r)

\* urlsplit(u, default_scheme)
Urlsplit(u, default_scheme) ==
    IF SchemeEnd(u) > 0
    THEN UrlsplitNetloc(SubSeq(u, 1, SchemeEnd(u) - 1), From(u, SchemeEnd(u) + 1))
    ELSE UrlsplitNetloc(default_scheme, u)

\* urlunsplit: append sep and part when part is not empty
WithPart(u, sep, part) == IF part # "" THEN u \o sep \o part ELSE u

\* urlunsplit: the "//netloc/path" part
NetlocAndPath(p) ==
    IF p.netloc # "" \/ (p.scheme # "" /\ p.scheme \in UsesNetloc /\ ~StartsWith(p.path, "//"))
    THEN "//" \o p.netloc \o
         (IF p.path # "" /\ ~StartsWith(p.path, "/") THEN "/" \o p.path ELSE p.path)
    ELSE p.path

\* urlunsplit((scheme, netloc, path, query, fragment))
Urlunsplit(p) ==
    WithPart(WithPart(IF p.scheme # "" THEN p.scheme \o ":" \o NetlocAndPath(p)
                      ELSE NetlocAndPath(p), "?", p.query), "#", p.fragment)

\* the loop of urljoin that resolves "." and ".." segments
RECURSIVE ResolveSegments(_, _)
ResolveSegments(segments, resolved) ==
    IF segments = <<>> THEN resolved
    ELSE LET seg == Head(segments)
         IN  IF seg = ".." THEN
                 ResolveSegments(Tail(segments),
                     IF resolved = <<>> THEN resolved ELSE SubSeq(resolved, 1, Len(resolved) - 1))
             ELSE IF seg = "." THEN ResolveSegments(Tail(segments), resolved)
             ELSE ResolveSegments(Tail(segments), Append(resolved, seg))

\* segments[1:-1] = filter(None, segments[1:-1])
FilterInner(segments) ==
    IF Len(segments) <= 2 THEN segments
    ELSE <<segments[1]>>
         \o SelectSeq(SubSeq(segments, 2, Len(segments) - 1), LAMBDA x : x # "")
         \o <<segments[Len(segments)]>>

\* urljoin: base_parts, the segments of the base path without its last one
BaseParts(bp0) == IF bp0[Len(bp0)] # "" THEN SubSeq(bp0, 1, Len(bp0) - 1) ELSE bp0

\* urljoin: the resolved path for the merged segments
ResolvedPath(segments) ==
    Join(IF segments[Len(segments)] \in {".", ".."}
         THEN Append(ResolveSegments(segments, <<>>), "")
         ELSE ResolveSegments(segments, <<>>), "/")

\* x or "/"
OrSlash(x) == IF x = "" THEN "/" ELSE x

\* urljoin, once base and url are parsed and share a scheme
UrljoinParsed(b, u, netloc) ==
    IF u.path = "" THEN
        Urlunsplit([scheme |-> u.scheme, netloc |-> netloc, path |-> b.path,
                    query |-> IF u.query = "" THEN b.query ELSE u.query,
                    fragment |-> u.fragment])
    ELSE
        Urlunsplit([scheme |-> u.scheme, netloc |-> netloc,
                    path |-> OrSlash(ResolvedPath(
                                IF StartsWith(u.path, "/") THEN Split(u.path, "/")
                                ELSE FilterInner(BaseParts(Split(b.path, "/")) \o Split(u.path, "/")))),
                    query |-> u.query, fragment |-> u.fragment])

\* urljoin, once base and url are parsed
UrljoinSplit(url, b, u) ==
    IF u.scheme # b.scheme \/ u.scheme \notin UsesRelative THEN url
    ELSE IF u.scheme \in UsesNetloc /\ u.netloc # "" THEN Urlunsplit(u)
    ELSE UrljoinParsed(b, u, IF u.scheme \in UsesNetloc THEN b.netloc ELSE u.netloc)

\* urljoin, once base is parsed
UrljoinBase(url, b) == UrljoinSplit(url, b, Urlsplit(url, b.scheme))

\* urljoin(base, url)
Urljoin(base, url) ==
    IF base = "" THEN url
    ELSE IF url = "" THEN base
    ELSE UrljoinBase(url, Urlsplit(base, ""))

\* urlsplit raises ValueError("Invalid IPv6 URL"): one bracket of the netloc
\* without the other
UnbalancedBrackets(netloc) == Contains(netloc, "[") # Contains(netloc, "]")
UrlsplitRaises(u) == UnbalancedBrackets(Urlsplit(u, "").netloc)

\* urljoin(base, url) raises: it splits base, then url
UrljoinRaises(base, url) ==
    base # "" /\ url # "" /\ (UrlsplitRaises(base) \/ UrlsplitRaises(url))

-----------------------------------------------------------------------------
(* fuzzywuzzy.fuzz.partial_ratio over difflib.SequenceMatcher (no junk,     *)
(* strings shorter than the autojunk limit)                                 *)

\* s[i] with a 1-based i
Ch(s, i) == SubSeq(s, i, i)

\* length of the common run of a[i:] and b[j:]
RECURSIVE RunLen(_, _, _, _)
RunLen(a, i, b, j) ==
    IF i > Len(a) \/ j > Len(b) THEN 0
    ELSE IF Ch(a, i) # Ch(b, j) THEN 0
    ELSE 1 + RunLen(a, i + 1, b, j + 1)

\* find_longest_match, given the run lengths: the longest block, of those the
\* one starting earliest in a, of those the one starting earliest in b
BestBlock(run, k) ==
    LET bi == Min({p[1] : p \in {q \in DOMAIN run : run[q] = k}})
    IN  <<bi, Min({p[2] : p \in {q \in DOMAIN run : run[q] = k /\ q[1] = bi}}), k>>

LongestIn(run) == BestBlock(run, Max({run[p] : p \in DOMAIN run}))

\* SequenceMatcher.find_longest_match(0, len(a), 0, len(b)) as <<i, j, k>>,
\* i and j 1-based; k = 0 when nothing matches
FindLongestMatch(a, b) ==
    IF a = "" \/ b = "" THEN <<1, 1, 0>>
    ELSE LongestIn([p \in (1..Len(a)) \X (1..Len(b)) |-> RunLen(a, p[1], b, p[2])])

\* SequenceMatcher.get_matching_blocks: the offsets j - i of the blocks
RECURSIVE BlockOffsets(_, _, _)
BlockOffsetsAt(a, b, d, m) ==
    IF m[3] = 0 THEN {}
    ELSE {d + m[2] - m[1]}
         \cup BlockOffsets(SubSeq(a, 1, m[1] - 1), SubSeq(b, 1, m[2] - 1), d)
         \cup BlockOffsets(From(a, m[1] + m[3]), From(b, m[2] + m[3]), d + m[2] - m[1])
BlockOffsets(a, b, d) == BlockOffsetsAt(a, b, d, FindLongestMatch(a, b))

\* SequenceMatcher: total size of the matching blocks
RECURSIVE MatchCount(_, _)
MatchCountAt(a, b, m) ==
    IF m[3] = 0 THEN 0
    ELSE m[3] + MatchCount(SubSeq(a, 1, m[1] - 1), SubSeq(b, 1, m[2] - 1))
              + MatchCount(From(a, m[1] + m[3]), From(b, m[2] + m[3]))
MatchCount(a, b) == MatchCountAt(a, b, FindLongestMatch(a, b))

\* int(round(100 * num / den)), Python rounding of halves to even
RoundHalfEven(n, d) ==
    IF 2 * (n % d) > d THEN (n \div d) + 1
    ELSE IF 2 * (n % d) = d THEN (n \div d) + ((n \div d) % 2)
    ELSE n \div d

\* ratio() of shorter against one window of longer, as a percentage
WindowPct(shorter, window) ==
    RoundHalfEven(200 * MatchCount(shorter, window), Len(shorter) + Len(window))

\* the window of longer that starts at 0-based offset start
Window(shorter, longer, start) ==
    SubSeq(longer, start + 1, Min({start + Len(shorter), Len(longer)}))

\* partial_ratio once the shorter string is known
PartialRatioOrdered(shorter, longer) ==
    Max({WindowPct(shorter, Window(shorter, longer, Max({d, 0}))) :
            d \in BlockOffsets(shorter, longer, 0) \cup {Len(longer) - Len(shorter)}})

\* fuzz.partial_ratio(s1, s2)
PartialRatio(s1, s2) ==
    IF s1 = s2 THEN 100
    ELSE IF s1 = "" \/ s2 = "" THEN 0
    ELSE IF Len(s1) <= Len(s2) THEN PartialRatioOrdered(s1, s2)
    ELSE PartialRatioOrdered(s2, s1)


-----------------------------------------------------------------------------
(* JobMatchingTool.find_careers_link.  The page is given as BeautifulSoup   *)
(* yields it: the a[href] elements in document order, each with its href    *)
(* and its stripped text.                                                   *)

UpperLetters == <<"A","B","C","D","E","F","G","H","I","J","K","L","M",
                  "N","O","P","Q","R","S","T","U","V","W","X","Y","Z">>
LowerLetters == <<"a","b","c","d","e","f","g","h","i","j","k","l","m",
                  "n","o","p","q","r","s","t","u","v","w","x","y","z">>

\* c.lower() for one character
LowerChar(c) ==
    IF \E i \in 1..26 : UpperLetters[i] = c
    THEN LowerLetters[CHOOSE i \in 1..26 : UpperLetters[i] = c]
    ELSE c

\* s.lower()
RECURSIVE Lower(_)
Lower(s) ==
    IF s = "" THEN ""
    ELSE IF Len(s) = 1 THEN LowerChar(s)
    ELSE Lower(SubSeq(s, 1, Len(s) \div 2)) \o Lower(From(s, Len(s) \div 2 + 1))

careers_keywords == <<"career", "job", "hiring", "opportunity", "employment",
                      "join", "work", "talent", "careers", "karriere">>
official_words == {"official", "corporate", "company"}
penalty_words == {"news", "blog", "contact", "about", "investor"}

\* href.startswith('/') or not href.startswith(('http://', 'https://'))
NeedsJoin(href) ==
    StartsWith(href, "/") \/ ~(StartsWith(href, "http://") \/ StartsWith(href, "https://"))

\* an href that is never joined
ResolveAsIs(href, base_url) == href

\* "Convert relative URLs to absolute": the href after the conditional urljoin
Resolve(href, base_url) == IF NeedsJoin(href) THEN Urljoin(base_url, href) ELSE href

\* the conditional urljoin raises
ResolveRaises(href, base_url) == NeedsJoin(href) /\ UrljoinRaises(base_url, href)

\* the link dict appended for one a[href] element
MakeLink(a, base_url) ==
    [url |-> Resolve(a.href, base_url),
     text |-> Lower(a.text),
     href_original |-> a.href]

\* the links list built by the first loop
ExtractLinks(html, base_url) == [i \in 1..Len(html) |-> MakeLink(html[i], base_url)]

\* direct matching that asks for the keyword itself instead of containment
RECURSIVE DirectScoreExact(_, _, _)
DirectScoreExact(text, url, i) ==
    IF i > Len(careers_keywords) THEN 0
    ELSE (IF text = careers_keywords[i] THEN 30 ELSE 0)
         + (IF url = careers_keywords[i] THEN 25 ELSE 0)
         + DirectScoreExact(text, url, i + 1)

\* direct keyword matching, summed over careers_keywords[i..]
RECURSIVE DirectScore(_, _, _)
DirectScore(text, url, i) ==
    IF i > Len(careers_keywords) THEN 0
    ELSE (IF Contains(text, careers_keywords[i]) THEN 30 ELSE 0)
         + (IF Contains(url, careers_keywords[i]) THEN 25 ELSE 0)
         + DirectScore(text, url, i + 1)

\* fuzzy matching for variations, summed over careers_keywords[i..]
RECURSIVE FuzzyScore(_, _, _)
FuzzyScore(text, url, i) ==
    IF i > Len(careers_keywords) THEN 0
    ELSE (IF PartialRatio(careers_keywords[i], text) > 80 THEN 20 ELSE 0)
         + (IF PartialRatio(careers_keywords[i], url) > 80 THEN 15 ELSE 0)
         + FuzzyScore(text, url, i + 1)

\* any(word in text or word in url for word in words)
AnyWord(words, text, url) == \E w \in words : Contains(text, w) \/ Contains(url, w)

\* the score of one link, for its text and its lower-cased url
ScoreOf(text, url) ==
    DirectScore(text, url, 1) + FuzzyScore(text, url, 1)
    + (IF AnyWord(official_words, text, url) THEN 10 ELSE 0)
    - (IF AnyWord(penalty_words, text, url) THEN 15 ELSE 0)

LinkScore(link) == ScoreOf(link.text, Lower(link.url))

\* the loop that keeps the best link: <<index of best_match or 0, best_score>>
RECURSIVE BestLoop(_, _, _)
\* a link that ties the best so far replaces it
BestStepLast(links, i, best, score) ==
    IF score >= best[2] THEN BestLoop(links, i + 1, <<i, score>>)
    ELSE BestLoop(links, i + 1, best)
\* if score > best_score: best_score = score; best_match = link
BestStep(links, i, best, score) ==
    IF score > best[2] THEN BestLoop(links, i + 1, <<i, score>>)
    ELSE BestLoop(links, i + 1, best)
BestLoop(links, i, best) ==
    IF i > Len(links) THEN best
    ELSE BestStep(links, i, best, LinkScore(links[i]))

\* thresholds that also take the boundary score
ConfidenceInclusive(best_score) ==
    IF best_score >= 60 THEN "high" ELSE IF best_score >= 35 THEN "medium" ELSE "low"

\* "high" if best_score > 60 else "medium" if best_score > 35 else "low"
Confidence(best_score) ==
    IF best_score > 60 THEN "high" ELSE IF best_score > 35 THEN "medium" ELSE "low"

\* the fallback joined as a relative path
FallbackUrlRelative(base_url) == Urljoin(base_url, "careers")

\* fallback_url = urljoin(base_url, "/careers")
FallbackUrl(base_url) == Urljoin(base_url, "/careers")

\* the dict returned by the except clause
CareersLinkFailed(msg) == [success |-> FALSE, error |-> msg, status |-> "careers_link_failed"]

\* the dict returned once the loop has chosen best = <<index, best_score>>
CareersResult(links, base_url, best) ==
    IF best[1] # 0 /\ best[2] > 20
    THEN [success |-> TRUE,
          careers_url |-> links[best[1]].url,
          confidence |-> Confidence(best[2]),
          score |-> best[2],
          status |-> "careers_link_found"]
    ELSE IF UrljoinRaises(base_url, "/careers")
    THEN CareersLinkFailed("Invalid IPv6 URL")
    ELSE [success |-> TRUE,
          careers_url |-> FallbackUrl(base_url),
          confidence |-> "low",
          score |-> 0,
          status |-> "fallback_careers_url"]

\* find_careers_link(html_content, base_url): a urljoin that raises in the
\* first loop leaves the try block before any link is scored
FindCareersLinkIn(links, base_url) == CareersResult(links, base_url, BestLoop(links, 1, <<0, 0>>))
FindCareersLink(html, base_url) ==
    IF \E i \in DOMAIN html : ResolveRaises(html[i].href, base_url)
    THEN CareersLinkFailed("Invalid IPv6 URL")
    ELSE FindCareersLinkIn(ExtractLinks(html, base_url), base_url)

-----------------------------------------------------------------------------
(* Orchestrator: LeadAgent.process_job_request and its six stage methods *)

StageOrder == <<"ResolveCompanyURL", "FindCareersLink", "AnalyzeCareersPage",
                "FindJobListings", "FindSpecificJob", "ExtractJobData">>

\* dict helpers
HasKey(d, k) == k \in DOMAIN d
Truthy(v) == v # None /\ v # ""

NoResult == [pending |-> TRUE]

\* requests as main.get_user_input builds them: all four keys present, at
\* least one of company_name / company_domain not None
JobTitles == {"backend engineer"}
CompanyNames == {None, "acme"}
CompanyDomains == {None, "acme.com", "https://acme.com"}
Requests ==
    {r \in [job_title : JobTitles, company_name : CompanyNames,
            company_domain : CompanyDomains, location : {None}] :
        r.company_name # None \/ r.company_domain # None}

\* values the external collaborators can hand back
SearchURLs == {"https://acme.com"}
CompanyPages ==
    {<<>>,
     <<[href |-> "/jobs", text |-> "Jobs"]>>,
     <<[href |-> "/jobs", text |-> "Jobs"], [href |-> "//[acme.com/team", text |-> "Team"]>>}
TargetURLs == {"/open-roles", "https://jobs.acme.com/all"}
JobURLs == {"https://acme.com/jobs/123"}
SubmitURLs == {"https://acme.com/jobs?q=backend", None}
NavOutcomes == {"ok", "failed", "raised"}

\* process_job_request: where control goes when the awaited stage returns
NextPcSkip(stage) ==
    CASE stage = "ResolveCompanyURL"  -> "s2_nav"
      [] stage = "FindCareersLink"    -> "s3_nav"
      [] stage = "AnalyzeCareersPage" -> "s5_scrape"
      [] stage = "FindJobListings"    -> "s5_scrape"
      [] stage = "FindSpecificJob"    -> "s6_scrape"
      [] stage = "ExtractJobData"     -> "compile"

NextPcRetry(stage) ==
    CASE stage = "ResolveCompanyURL"  -> "s2_nav"
      [] stage = "FindCareersLink"    -> "s3_nav"
      [] stage = "AnalyzeCareersPage" -> "s4_scrape"
      [] stage = "FindJobListings"    -> "s5_scrape"
      [] stage = "FindSpecificJob"    -> IF nav_failed # 0 THEN "s5_scrape" ELSE "s6_scrape"
      [] stage = "ExtractJobData"     -> "compile"

NextPc(stage) ==
    CASE stage = "ResolveCompanyURL"  -> "s2_nav"
      [] stage = "FindCareersLink"    -> "s3_nav"
      [] stage = "AnalyzeCareersPage" -> "s4_scrape"
      [] stage = "FindJobListings"    -> "s5_scrape"
      [] stage = "FindSpecificJob"    -> "s6_scrape"
      [] stage = "ExtractJobData"     -> "compile"

\* a stage method returns normally to process_job_request
Return(stage) ==
    /\ returned' = Append(returned, stage)
    /\ pc' = NextPc(stage)

\* the exception leaves process_job_request instead of being caught
RaisePropagates(msg) ==
    /\ pc' = "done"
    /\ result' = NoResult

\* the except clause of process_job_request
Raise(msg) ==
    /\ pc' = "done"
    /\ result' = [success |-> FALSE, error |-> msg, job_params |-> job_params]

\* web_nav_tool.navigate_to_url as seen through its effect on current_url
NavToolEffect(url, o) == current_url' = IF o = "ok" THEN url ELSE current_url

\* WebAgent.navigate_to_url: the dict it returns; a raising tool is caught
WebAgentNavigate(url, o) ==
    IF o = "ok" THEN [success |-> TRUE, title |-> "t"]
    ELSE [success |-> FALSE, error |-> "navigation failed"]

\* history of the first navigation the collaborator reported as failed
NoteNav(res, n) ==
    nav_failed' = IF ~res.success /\ nav_failed = 0 THEN n ELSE nav_failed

\* WebAgent.scrape_current_page over HTMLScrapingTool.scrape_page; the html
\* of a page is represented by the URL the page was loaded from
ScrapeResults ==
    {[success |-> TRUE, html_content |-> current_url, current_url |-> current_url,
      status |-> "scraping_completed"],
     [success |-> FALSE, error |-> "scrape failed", status |-> "scraping_failed"]}

\* the tools before any call is made
FCIdle == fc_html = <<>> /\ fc_base = "" /\ fc_result = NoResult /\ fc_pc = "idle"
ELIdle ==
    el_html = <<>> /\ el_base = "" /\ el_links = <<>> /\ el_again = <<>> /\ el_pc = "idle"
RSIdle ==
    rs_text = "" /\ rs_url = "" /\ rs_keyword = "" /\ rs_scores = <<>> /\ rs_pc = "idle"
JLIdle == jl_html = <<>> /\ jl_base = "" /\ jl_result = <<>> /\ jl_pc = "idle"
BMIdle ==
    /\ bm_links = <<>> /\ bm_title = "" /\ bm_location = None
    /\ bm_matches = <<>> /\ bm_result = NoResult /\ bm_pc = "idle"
SJIdle ==
    /\ sj_forms = NoResult /\ sj_fill = "" /\ sj_submit = "" /\ sj_log = <<>>
    /\ sj_result = NoResult /\ sj_pc = "idle"
HJIdle ==
    hj_html = <<>> /\ hj_title = "" /\ hj_url = "" /\ hj_result = NoResult /\ hj_pc = "idle"
XDIdle ==
    /\ xd_page = NoResult /\ xd_params = NoResult /\ xd_result = NoResult
    /\ xd_log = <<>> /\ xd_pc = "idle"
MoreIdle == SJIdle /\ HJIdle /\ XDIdle

Init ==
    /\ pc = "s1"
    /\ job_params \in Requests
    /\ company_url = Unset
    /\ careers_url = Unset
    /\ careers_analysis = NoResult
    /\ job_listings_url = Unset
    /\ specific_job_url = Unset
    /\ job_data = NoResult
    /\ page_content = NoResult
    /\ decision = NoResult
    /\ job_links_result = NoResult
    /\ best_match = NoResult
    /\ current_url = None
    /\ result = NoResult
    /\ started = <<>>
    /\ returned = <<>>
    /\ nav_failed = 0
    /\ cancelled = -1
    /\ calls = {}
    /\ FCIdle /\ ELIdle /\ RSIdle /\ JLIdle /\ BMIdle /\ MoreIdle

\* _get_company_url, company_domain branch
S1_Domain ==
    /\ pc = "s1"
    /\ Truthy(job_params.company_domain)
    /\ started' = Append(started, "ResolveCompanyURL")
    /\ LET domain == job_params.company_domain
       IN  company_url' = IF StartsWith(domain, "http://") \/ StartsWith(domain, "https://")
                          THEN domain ELSE "https://" \o domain
    /\ Return("ResolveCompanyURL")
    /\ UNCHANGED <<job_params, careers_url, careers_analysis, job_listings_url,
                   specific_job_url, job_data, page_content, decision, job_links_result,
                   best_match, current_url, result, nav_failed, cancelled, calls>>
    /\ UNCHANGED toolVars

\* WebAgent.search_company: the dict it returns for a search outcome and a
\* navigation outcome
SearchCompany(found, url, o) ==
    IF found /\ o = "ok"
    THEN [success |-> TRUE, url |-> url, title |-> "t", confidence |-> "medium"]
    ELSE [success |-> FALSE, error |-> "Could not find or navigate to website"]

\* _get_company_url, company_name branch
S1_Search ==
    /\ pc = "s1"
    /\ ~Truthy(job_params.company_domain)
    /\ started' = Append(started, "ResolveCompanyURL")
    /\ calls' = calls \cup {"search_company"}
    /\ \E found \in BOOLEAN, url \in SearchURLs, o \in NavOutcomes :
         LET search_result == SearchCompany(found, url, o)
         IN  /\ IF found
                THEN /\ NavToolEffect(url, o)
                     /\ NoteNav(WebAgentNavigate(url, o), Len(started'))
                ELSE UNCHANGED <<current_url, nav_failed>>
             /\ IF HasKey(search_result, "url")
                THEN /\ company_url' = search_result.url
                     /\ Return("ResolveCompanyURL")
                     /\ UNCHANGED result
                ELSE /\ Raise("'url'")
                     /\ UNCHANGED <<company_url, returned>>
    /\ UNCHANGED <<job_params, careers_url, careers_analysis, job_listings_url,
                   specific_job_url, job_data, page_content, decision, job_links_result,
                   best_match, cancelled>>
    /\ UNCHANGED toolVars

\* a stage step that awaits web_agent.navigate_to_url(url) and drops the result
NavStep(from, to, stage, url) ==
    /\ pc = from
    /\ started' = IF stage = "" THEN started ELSE Append(started, stage)
    /\ calls' = calls \cup {"navigate:" \o from}
    /\ \E o \in NavOutcomes :
         /\ NavToolEffect(url, o)
         /\ NoteNav(WebAgentNavigate(url, o), Len(started'))
    /\ pc' = to

\* a stage step that awaits web_agent.scrape_current_page()
ScrapeStep(from, to, stage) ==
    /\ pc = from
    /\ started' = IF stage = "" THEN started ELSE Append(started, stage)
    /\ \E r \in ScrapeResults : page_content' = r
    /\ pc' = to

\* AnalyzerAgent.find_careers_link handing back what
\* JobMatchingTool.find_careers_link returns for the page that was scraped
FindCareersResults(base_url) == {FindCareersLink(html, base_url) : html \in CompanyPages}

\* _find_careers_page: await web_agent.navigate_to_url(company_url)
S2_Nav ==
    /\ NavStep("s2_nav", "s2_scrape", "FindCareersLink", company_url)
    /\ UNCHANGED <<job_params, company_url, careers_url, careers_analysis, job_listings_url,
                   specific_job_url, job_data, page_content, decision, job_links_result,
                   best_match, result, returned, cancelled>>
    /\ UNCHANGED toolVars

\* _find_careers_page: await web_agent.scrape_current_page()
S2_Scrape ==
    /\ ScrapeStep("s2_scrape", "s2_find", "")
    /\ UNCHANGED <<job_params, company_url, careers_url, careers_analysis, job_listings_url,
                   specific_job_url, job_data, decision, job_links_result, best_match,
                   current_url, result, returned, nav_failed, cancelled, calls>>
    /\ UNCHANGED toolVars

\* _find_careers_page: find_careers_link(page_content["html_content"], ...) and
\* return careers_analysis["careers_url"]
S2_Find ==
    /\ pc = "s2_find"
    /\ IF ~HasKey(page_content, "html_content")
       THEN /\ Raise("'html_content'")
            /\ UNCHANGED <<careers_url, returned, calls>>
            /\ UNCHANGED fc_result
       ELSE /\ calls' = calls \cup {"find_careers_link"}
            /\ \E r \in FindCareersResults(company_url) :
                 /\ fc_result' = r
                 /\ IF HasKey(r, "careers_url")
                    THEN /\ careers_url' = r.careers_url
                         /\ Return("FindCareersLink")
                         /\ UNCHANGED result
                    ELSE /\ Raise("'careers_url'")
                         /\ UNCHANGED <<careers_url, returned>>
    /\ UNCHANGED <<job_params, company_url, careers_analysis, job_listings_url,
                   specific_job_url, job_data, page_content, decision, job_links_result,
                   best_match, current_url, started, nav_failed, cancelled>>
    /\ UNCHANGED <<fc_html, fc_base, fc_pc, elVars, rsVars, jlVars, bmVars, moreVars>>

\* _analyze_careers_page: await web_agent.navigate_to_url(careers_url)
S3_Nav ==
    /\ NavStep("s3_nav", "s3_scrape", "AnalyzeCareersPage", careers_url)
    /\ UNCHANGED <<job_params, company_url, careers_url, careers_analysis, job_listings_url,
                   specific_job_url, job_data, page_content, decision, job_links_result,
                   best_match, result, returned, cancelled>>
    /\ UNCHANGED toolVars

\* _analyze_careers_page: await web_agent.scrape_current_page()
S3_Scrape ==
    /\ ScrapeStep("s3_scrape", "s3_analyze", "")
    /\ UNCHANGED <<job_params, company_url, careers_url, careers_analysis, job_listings_url,
                   specific_job_url, job_data, decision, job_links_result, best_match,
                   current_url, result, returned, nav_failed, cancelled, calls>>
    /\ UNCHANGED toolVars

\* AnalyzerAgent.analyze_page_structure: some dict describing the page
PageStructureResults ==
    {[success |-> TRUE, has_search |-> b] : b \in BOOLEAN}
    \cup {[success |-> FALSE, error |-> "analysis failed"]}

\* _analyze_careers_page: analyze_page_structure(...), then
\* analysis["careers_url"] = careers_url
S3_Analyze ==
    /\ pc = "s3_analyze"
    /\ IF ~HasKey(page_content, "html_content")
       THEN /\ Raise("'html_content'")
            /\ UNCHANGED <<careers_analysis, returned, calls>>
       ELSE /\ calls' = calls \cup {"analyze_page_structure"}
            /\ \E analysis \in PageStructureResults :
                 careers_analysis' = [k \in DOMAIN analysis \cup {"careers_url"} |->
                                        IF k = "careers_url" THEN careers_url ELSE analysis[k]]
            /\ Return("AnalyzeCareersPage")
            /\ UNCHANGED result
    /\ UNCHANGED <<job_params, company_url, careers_url, job_listings_url,
                   specific_job_url, job_data, page_content, decision, job_links_result,
                   best_match, current_url, started, nav_failed, cancelled>>
    /\ UNCHANGED toolVars

\* AnalyzerAgent.decide_careers_page_action: {action, reasoning, target_url?},
\* the action possibly unrecognized or absent, the target possibly absent
RecognizedActions == {"use_search", "navigate_to_link", "extract_jobs_current_page"}
Decisions ==
    {[action |-> a, reasoning |-> "r"] :
        a \in {"use_search", "navigate_to_link", "extract_jobs_current_page", "summarize_page"}}
    \cup {[action |-> "navigate_to_link", reasoning |-> "r", target_url |-> t] : t \in TargetURLs}
    \cup {[reasoning |-> "r"]}

\* decision.get("action", "search_links")
ActionOf(d) == IF HasKey(d, "action") THEN d.action ELSE "search_links"

\* _find_job_listings: await web_agent.scrape_current_page()
S4_Scrape ==
    /\ ScrapeStep("s4_scrape", "s4_decide", "FindJobListings")
    /\ UNCHANGED <<job_params, company_url, careers_url, careers_analysis, job_listings_url,
                   specific_job_url, job_data, decision, job_links_result, best_match,
                   current_url, result, returned, nav_failed, cancelled, calls>>
    /\ UNCHANGED toolVars

\* _find_job_listings: decide_careers_page_action(page_content["html_content"], job_title)
S4_Decide ==
    /\ pc = "s4_decide"
    /\ IF ~HasKey(page_content, "html_content")
       THEN /\ Raise("'html_content'")
            /\ UNCHANGED <<decision, calls>>
       ELSE /\ calls' = calls \cup {"decide_careers_page_action"}
            /\ \E d \in Decisions : decision' = d
            /\ pc' = "s4_act"
            /\ UNCHANGED result
    /\ UNCHANGED <<job_params, company_url, careers_url, careers_analysis, job_listings_url,
                   specific_job_url, job_data, page_content, job_links_result,
                   best_match, current_url, started, returned, nav_failed, cancelled>>
    /\ UNCHANGED toolVars

\* WebAgent.search_jobs_on_page: the dict it returns. forms is "none" when
\* extract_forms fails or finds no form, "no_input" when no text/search input
\* matches, "input" otherwise
FormsOutcomes == {"none", "no_input", "input"}
SearchJobsOnPage(forms, fill_ok, submit_ok, url) ==
    IF forms = "none" THEN [success |-> FALSE, error |-> "No search forms found on page"]
    ELSE IF forms = "no_input" THEN [success |-> FALSE, error |-> "No suitable search input found"]
    ELSE IF fill_ok /\ submit_ok
         THEN [success |-> TRUE, current_url |-> url, message |-> "Successfully searched"]
         ELSE [success |-> FALSE, error |-> "Failed to submit search"]

\* web_nav_tool.interact_with_element("submit", ...) as seen through its
\* effect on current_url: a successful submit loads the results page
SubmitEffect(search_result, url) ==
    current_url' = IF search_result.success /\ url # None THEN url ELSE current_url

\* _find_job_listings, action == "use_search"
S4_UseSearch ==
    /\ pc = "s4_act"
    /\ ActionOf(decision) = "use_search"
    /\ calls' = calls \cup {"search_jobs_on_page"}
    /\ \E forms \in FormsOutcomes, fill_ok \in BOOLEAN, submit_ok \in BOOLEAN, url \in SubmitURLs :
         LET search_result == SearchJobsOnPage(forms, fill_ok, submit_ok, url)
         IN  /\ job_listings_url' = IF HasKey(search_result, "current_url")
                                    THEN search_result.current_url ELSE current_url
             /\ SubmitEffect(search_result, url)
    /\ Return("FindJobListings")
    /\ UNCHANGED <<job_params, company_url, careers_url, careers_analysis,
                   specific_job_url, job_data, page_content, decision, job_links_result,
                   best_match, result, started, nav_failed, cancelled>>
    /\ UNCHANGED toolVars

\* urljoin with a base that may be None
PyUrljoin(base, url) == IF base = None THEN url ELSE Urljoin(base, url)

\* _find_job_listings, action == "navigate_to_link"
S4_NavigateToLink ==
    /\ pc = "s4_act"
    /\ ActionOf(decision) = "navigate_to_link"
    /\ IF ~HasKey(decision, "target_url")
       THEN /\ Raise("'target_url'")
            /\ UNCHANGED <<job_listings_url, current_url, returned, nav_failed, calls>>
       ELSE LET t == decision.target_url
                target_url == IF StartsWith(t, "http://") \/ StartsWith(t, "https://")
                              THEN t ELSE PyUrljoin(current_url, t)
            IN  /\ calls' = calls \cup {"navigate:s4_act"}
                /\ \E o \in NavOutcomes :
                     /\ NavToolEffect(target_url, o)
                     /\ NoteNav(WebAgentNavigate(target_url, o), Len(started))
                /\ job_listings_url' = target_url
                /\ Return("FindJobListings")
                /\ UNCHANGED result
    /\ UNCHANGED <<job_params, company_url, careers_url, careers_analysis,
                   specific_job_url, job_data, page_content, decision, job_links_result,
                   best_match, started, cancelled>>
    /\ UNCHANGED toolVars

\* _find_job_listings, action == "extract_jobs_current_page"
S4_CurrentPage ==
    /\ pc = "s4_act"
    /\ ActionOf(decision) = "extract_jobs_current_page"
    /\ job_listings_url' = current_url
    /\ Return("FindJobListings")
    /\ UNCHANGED <<job_params, company_url, careers_url, careers_analysis,
                   specific_job_url, job_data, page_content, decision, job_links_result,
                   best_match, current_url, result, started, nav_failed, cancelled, calls>>
    /\ UNCHANGED toolVars

\* _find_job_listings, else branch: self._fallback_link_analysis is not a
\* method of LeadAgent, so the attribute lookup raises AttributeError
S4_Fallback ==
    /\ pc = "s4_act"
    /\ ActionOf(decision) \notin RecognizedActions
    /\ Raise("'LeadAgent' object has no attribute '_fallback_link_analysis'")
    /\ UNCHANGED <<job_params, company_url, careers_url, careers_analysis, job_listings_url,
                   specific_job_url, job_data, page_content, decision, job_links_result,
                   best_match, current_url, started, returned, nav_failed, cancelled, calls>>
    /\ UNCHANGED toolVars

\* AnalyzerAgent.extract_job_links: a dict whose job_links is a list of
\* {title, url} entries, possibly empty, or a failure dict without the key
JobLinkEntries == {[title |-> "backend engineer", url |-> u] : u \in JobURLs}
JobLinksResults ==
    {[success |-> TRUE, job_links |-> <<e>>] : e \in JobLinkEntries}
    \cup {[success |-> TRUE, job_links |-> <<>>]}
    \cup {[success |-> FALSE, error |-> "extraction failed"]}

\* job_links_result.get("job_links"), None when the key is absent
GetJobLinks(r) == IF HasKey(r, "job_links") THEN r.job_links ELSE <<>>

\* only a missing key counts, an empty list passes
NoJobLinksKeyOnly(r) == ~HasKey(r, "job_links")

\* not job_links_result.get("job_links")
NoJobLinks(r) == GetJobLinks(r) = <<>>

\* AnalyzerAgent.find_best_job_match: the chosen entry with its url, or a
\* failure dict without one
BestMatchResults(links) ==
    {[title |-> links[i].title, url |-> links[i].url, match_score |-> 100] : i \in DOMAIN links}
    \cup {[success |-> FALSE, error |-> "matching failed"]}

\* _find_specific_job: await web_agent.scrape_current_page()
S5_Scrape ==
    /\ ScrapeStep("s5_scrape", "s5_links", "FindSpecificJob")
    /\ UNCHANGED <<job_params, company_url, careers_url, careers_analysis, job_listings_url,
                   specific_job_url, job_data, decision, job_links_result, best_match,
                   current_url, result, returned, nav_failed, cancelled, calls>>
    /\ UNCHANGED toolVars

\* _find_specific_job: extract_job_links(...), then the empty check
S5_Links ==
    /\ pc = "s5_links"
    /\ IF ~HasKey(page_content, "html_content")
       THEN /\ Raise("'html_content'")
            /\ UNCHANGED <<job_links_result, calls>>
       ELSE /\ calls' = calls \cup {"extract_job_links"}
            /\ \E r \in JobLinksResults :
                 /\ job_links_result' = r
                 /\ IF NoJobLinks(r)
                    THEN Raise("No job listings found on the page")
                    ELSE /\ pc' = "s5_match"
                         /\ UNCHANGED result
    /\ UNCHANGED <<job_params, company_url, careers_url, careers_analysis, job_listings_url,
                   specific_job_url, job_data, page_content, decision,
                   best_match, current_url, started, returned, nav_failed, cancelled>>
    /\ UNCHANGED toolVars

\* _find_specific_job: await analyzer_agent.find_best_job_match(...)
S5_Match ==
    /\ pc = "s5_match"
    /\ calls' = calls \cup {"find_best_job_match"}
    /\ \E m \in BestMatchResults(job_links_result.job_links) : best_match' = m
    /\ pc' = "s5_nav"
    /\ UNCHANGED <<job_params, company_url, careers_url, careers_analysis, job_listings_url,
                   specific_job_url, job_data, page_content, decision, job_links_result,
                   current_url, result, started, returned, nav_failed, cancelled>>
    /\ UNCHANGED toolVars

\* _find_specific_job: navigate_to_url(best_match["url"]); return best_match["url"]
S5_Nav ==
    /\ pc = "s5_nav"
    /\ IF ~HasKey(best_match, "url")
       THEN /\ Raise("'url'")
            /\ UNCHANGED <<specific_job_url, current_url, returned, nav_failed, calls>>
       ELSE /\ calls' = calls \cup {"navigate:s5_nav"}
            /\ \E o \in NavOutcomes :
                 /\ NavToolEffect(best_match.url, o)
                 /\ NoteNav(WebAgentNavigate(best_match.url, o), Len(started))
            /\ specific_job_url' = best_match.url
            /\ Return("FindSpecificJob")
            /\ UNCHANGED result
    /\ UNCHANGED <<job_params, company_url, careers_url, careers_analysis, job_listings_url,
                   job_data, page_content, decision, job_links_result, best_match,
                   started, cancelled>>
    /\ UNCHANGED toolVars

\* AnalyzerAgent.extract_job_data: a dict with job_data, or a failure dict
ExtractResults ==
    {[success |-> TRUE, job_data |-> [title |-> "backend engineer", company |-> c]] :
        c \in CompanyNames}
    \cup {[success |-> FALSE, error |-> "extraction failed"]}

\* _extract_job_data: await web_agent.scrape_current_page()
S6_Scrape ==
    /\ ScrapeStep("s6_scrape", "s6_extract", "ExtractJobData")
    /\ UNCHANGED <<job_params, company_url, careers_url, careers_analysis, job_listings_url,
                   specific_job_url, job_data, decision, job_links_result, best_match,
                   current_url, result, returned, nav_failed, cancelled, calls>>
    /\ UNCHANGED toolVars

\* _extract_job_data: extract_job_data(...); return job_data["job_data"]
S6_Extract ==
    /\ pc = "s6_extract"
    /\ IF ~HasKey(page_content, "html_content")
       THEN /\ Raise("'html_content'")
            /\ UNCHANGED <<job_data, returned, calls>>
       ELSE /\ calls' = calls \cup {"extract_job_data"}
            /\ \E r \in ExtractResults :
                 IF HasKey(r, "job_data")
                 THEN /\ job_data' = r.job_data
                      /\ Return("ExtractJobData")
                      /\ UNCHANGED result
                 ELSE /\ Raise("'job_data'")
                      /\ UNCHANGED <<job_data, returned>>
    /\ UNCHANGED <<job_params, company_url, careers_url, careers_analysis, job_listings_url,
                   specific_job_url, page_content, decision, job_links_result,
                   best_match, current_url, started, nav_failed, cancelled>>
    /\ UNCHANGED toolVars

\* the audit trail with two entries swapped
WorkflowStepsSwapped ==
    [company_url      |-> company_url,
     careers_url      |-> job_listings_url,
     job_listings_url |-> careers_url,
     specific_job_url |-> specific_job_url]

\* process_job_request: the workflow_steps dict of the result
WorkflowSteps ==
    [company_url      |-> company_url,
     careers_url      |-> careers_url,
     job_listings_url |-> job_listings_url,
     specific_job_url |-> specific_job_url]

\* process_job_request: compile the final result and return it
Compile ==
    /\ pc = "compile"
    /\ result' = [success |-> TRUE,
                  job_params |-> job_params,
                  workflow_steps |-> WorkflowSteps,
                  job_data |-> job_data]
    /\ pc' = "done"
    /\ UNCHANGED <<job_params, company_url, careers_url, careers_analysis, job_listings_url,
                   specific_job_url, job_data, page_content, decision, job_links_result,
                   best_match, current_url, started, returned, nav_failed, cancelled, calls>>
    /\ UNCHANGED toolVars

\* the caller signals cancellation while the run is in progress; nothing in
\* process_job_request reads the signal
Cancel ==
    /\ pc # "done"
    /\ cancelled = -1
    /\ cancelled' = Len(started)
    /\ UNCHANGED <<pc, job_params, company_url, careers_url, careers_analysis,
                   job_listings_url, specific_job_url, job_data, page_content,
                   decision, job_links_result, best_match, current_url, result, started,
                   returned, nav_failed, calls>>
    /\ UNCHANGED toolVars

Next ==
    \/ S1_Domain \/ S1_Search
    \/ S2_Nav \/ S2_Scrape \/ S2_Find
    \/ S3_Nav \/ S3_Scrape \/ S3_Analyze
    \/ S4_Scrape \/ S4_Decide \/ S4_UseSearch \/ S4_NavigateToLink \/ S4_CurrentPage \/ S4_Fallback
    \/ S5_Scrape \/ S5_Links \/ S5_Match \/ S5_Nav
    \/ S6_Scrape \/ S6_Extract
    \/ Compile
    \/ Cancel

Spec == Init /\ [][Next]_vars

-----------------------------------------------------------------------------
(* Properties of the orchestrator *)

IsPrefix(a, b) == Len(a) <= Len(b) /\ SubSeq(b, 1, Len(a)) = a
Succeeded == HasKey(result, "success") /\ result.success
Failed == HasKey(result, "success") /\ ~result.success

\* C1: the stages start in the fixed order ResolveCompanyURL, FindCareersLink,
\* AnalyzeCareersPage, FindJobListings, FindSpecificJob, ExtractJobData; a
\* stage starts only after the preceding one returned, a successful run skips
\* none, and the success result is compiled only after ExtractJobData returned.
StagesInOrder ==
    /\ IsPrefix(started, StageOrder)
    /\ IsPrefix(returned, StageOrder)
    /\ Len(returned) <= Len(started)
    /\ Len(started) <= Len(returned) + 1
    /\ (pc = "compile" \/ Succeeded) => (started = StageOrder /\ returned = StageOrder)

StagesInOrderWitness == pc = "done" /\ Succeeded /\ started = StageOrder

\* C2: process_job_request always returns a result; when a stage raised, the
\* run is over with success=false, a non-empty error and the caller's
\* job_params, which no step changes.
RaiseIsCaught ==
    /\ [](pc = "done" =>
            /\ HasKey(result, "success")
            /\ (Len(returned) < Len(started) =>
                    /\ ~result.success
                    /\ HasKey(result, "error")
                    /\ result.error # ""
                    /\ result.job_params = job_params))
    /\ [][job_params' = job_params]_vars
    /\ [][pc = "done" => started' = started]_vars

RaiseIsCaughtWitness ==
    pc = "done" /\ Failed /\ Len(started) = 3 /\ Len(returned) = 2

\* C3: when extract_job_links yields no job links in FindSpecificJob, the run
\* is over with success=false and the stage's error, the ranker was not
\* called, no job URL was navigated to and ExtractJobData never started.
EmptyListingsFail ==
    (job_links_result # NoResult /\ GetJobLinks(job_links_result) = <<>>) =>
        /\ pc = "done"
        /\ Failed
        /\ result.error = "No job listings found on the page"
        /\ "find_best_job_match" \notin calls
        /\ "navigate:s5_nav" \notin calls
        /\ Len(started) = 5
        /\ specific_job_url = Unset

EmptyListingsFailWitness ==
    /\ HasKey(job_links_result, "job_links")
    /\ job_links_result.job_links = <<>>
    /\ pc = "done"

\* C4: once the navigation collaborator reported a failed navigation, no
\* further stage starts and the run's result has success=false.
NavFailureTerminal ==
    nav_failed # 0 =>
        /\ Len(started) = nav_failed
        /\ (pc = "done" => Failed)

\* C11: when find_careers_link ends in its except clause (careers_link_failed),
\* the FindCareersLink stage still returns a careers URL and the run goes on
\* to AnalyzeCareersPage.
InternalErrorFallsBack ==
    (HasKey(fc_result, "status") /\ fc_result.status = "careers_link_failed") =>
        /\ careers_url # Unset
        /\ Len(returned) >= 2
        /\ (pc = "done" => Len(started) >= 3)

\* C5: an unrecognized or absent advisor action makes FindJobListings fall
\* back to link analysis and yield a job-listings URL.
UnknownActionFallsBack ==
    (decision # NoResult /\ ActionOf(decision) \notin RecognizedActions /\ pc # "s4_act") =>
        /\ job_listings_url # Unset
        /\ Len(returned) >= 4

\* C6: a success result holds the four URLs the stages returned, has job_data
\* and no error; a failure result has an error and no job_data.
ResultShape ==
    pc = "done" =>
        IF result.success
        THEN /\ DOMAIN result.workflow_steps =
                    {"company_url", "careers_url", "job_listings_url", "specific_job_url"}
             /\ result.workflow_steps.company_url = company_url
             /\ result.workflow_steps.careers_url = careers_url
             /\ result.workflow_steps.job_listings_url = job_listings_url
             /\ result.workflow_steps.specific_job_url = specific_job_url
             /\ company_url # Unset /\ careers_url # Unset
             /\ job_listings_url # Unset /\ specific_job_url # Unset
             /\ HasKey(result, "job_data") /\ result.job_data = job_data
             /\ job_data # NoResult
             /\ ~HasKey(result, "error")
        ELSE /\ HasKey(result, "error")
             /\ ~HasKey(result, "job_data")

ResultShapeWitness ==
    /\ pc = "done" /\ Succeeded
    /\ result.workflow_steps.careers_url # result.workflow_steps.job_listings_url

\* C7: within one run every stage is started at most once.
NoStageRetried ==
    \A i, j \in DOMAIN started : started[i] = started[j] => i = j

NoStageRetriedWitness ==
    pc = "done" /\ Len(started) = 6 /\ nav_failed # 0

\* C8: once cancellation is signalled no further stage is started.
CancelStopsStages ==
    cancelled # -1 => Len(started) = cancelled

-----------------------------------------------------------------------------
(* find_careers_link applied as a pure function *)

\* pages and base URLs the function is applied to
MaxLinks == 2
Anchors ==
    {[href |-> "/careers", text |-> "Careers"],
     [href |-> "/blog", text |-> "Blog"],
     [href |-> "/x", text |-> "Official Jobs"],
     [href |-> "/y", text |-> "Official Jobs"],
     [href |-> "/employmant", text |-> "employmant"],
     [href |-> "/p", text |-> "Employmant"],
     [href |-> "/blog/jobs", text |-> ""],
     [href |-> "https://jobs.io/a", text |-> "Apply"]}
BaseURLs == {"https://acme.com", "https://acme.com/en/"}
Pages == UNION {[1..n -> Anchors] : n \in 0..MaxLinks}

OrchIdle ==
    /\ pc = "idle"
    /\ job_params = NoResult
    /\ company_url = Unset
    /\ careers_url = Unset
    /\ careers_analysis = NoResult
    /\ job_listings_url = Unset
    /\ specific_job_url = Unset
    /\ job_data = NoResult
    /\ page_content = NoResult
    /\ decision = NoResult
    /\ job_links_result = NoResult
    /\ best_match = NoResult
    /\ current_url = None
    /\ result = NoResult
    /\ started = <<>>
    /\ returned = <<>>
    /\ nav_failed = 0
    /\ cancelled = -1
    /\ calls = {}

InitFC ==
    /\ OrchIdle
    /\ ELIdle /\ RSIdle /\ JLIdle /\ BMIdle /\ MoreIdle
    /\ fc_html \in Pages
    /\ fc_base \in BaseURLs
    /\ fc_result = NoResult
    /\ fc_pc = "call"

\* one call of find_careers_link
FC_Call ==
    /\ fc_pc = "call"
    /\ fc_result' = FindCareersLink(fc_html, fc_base)
    /\ fc_pc' = "ret"
    /\ UNCHANGED <<fc_html, fc_base>>
    /\ UNCHANGED <<orchVars, elVars, rsVars, jlVars, bmVars, moreVars>>

NextFC == FC_Call

SpecFC == InitFC /\ [][NextFC]_vars

\* C9: for a page with zero links find_careers_link returns success with the
\* URL /careers on the base URL's host and confidence low.
Origin(u) == Urlsplit(u, "").scheme \o "://" \o Urlsplit(u, "").netloc

ZeroLinksFallback ==
    (fc_pc = "ret" /\ fc_html = <<>>) =>
        /\ HasKey(fc_result, "careers_url")
        /\ fc_result.success
        /\ fc_result.careers_url = Origin(fc_base) \o "/careers"
        /\ fc_result.confidence = "low"

ZeroLinksFallbackWitness ==
    /\ fc_pc = "ret" /\ fc_html = <<>> /\ fc_base = "https://acme.com/en/"
    /\ fc_result.status = "fallback_careers_url"

\* C10: a best link score above 60 gives high, above 35 up to 60 medium, above
\* 20 up to 35 low; when no link scores above 20 the result is the /careers
\* fallback with confidence low, and the returned link always scores above 20.
ScoresOf(html, base_url) ==
    [i \in 1..Len(html) |-> LinkScore(ExtractLinks(html, base_url)[i])]

ThresholdsHold(scores, links, r) ==
    IF \E i \in DOMAIN scores : scores[i] > 20
    THEN /\ r.status = "careers_link_found"
         /\ r.score > 20
         /\ \A i \in DOMAIN scores : scores[i] <= r.score
         /\ \E i \in DOMAIN scores : scores[i] = r.score /\ links[i].url = r.careers_url
         /\ (r.score > 60 => r.confidence = "high")
         /\ (r.score > 35 /\ r.score <= 60 => r.confidence = "medium")
         /\ (r.score > 20 /\ r.score <= 35 => r.confidence = "low")
    ELSE /\ r.status = "fallback_careers_url"
         /\ r.careers_url = Origin(fc_base) \o "/careers"
         /\ r.confidence = "low"

ConfidenceThresholds ==
    fc_pc = "ret" =>
        ThresholdsHold(ScoresOf(fc_html, fc_base), ExtractLinks(fc_html, fc_base), fc_result)

ConfidenceThresholdsWitness ==
    /\ fc_pc = "ret"
    /\ fc_result.status = "careers_link_found"
    /\ fc_result.score = 35
    /\ fc_result.confidence = "low"

-----------------------------------------------------------------------------
(* HTMLScrapingTool._extract_all_links.  The page is given as the a[href]   *)
(* elements BeautifulSoup yields, in document order.                        *)

\* not href or href == '#' or href.startswith(('javascript:', 'mailto:', 'tel:'))
SkipLink(href) ==
    \/ href = ""
    \/ href = "#"
    \/ StartsWith(href, "javascript:") \/ StartsWith(href, "mailto:") \/ StartsWith(href, "tel:")

\* link.get(key, default)
AttrOf(a, key, default) == IF key \in DOMAIN a THEN a[key] ELSE default

\* the dict appended for one a[href] element whose resolved href is href
LinkDict(a, href) ==
    [url |-> href,
     text |-> a.text,
     original_href |-> a.href,
     title |-> AttrOf(a, "title", ""),
     class |-> AttrOf(a, "class", <<>>)]

\* the loop over soup.find_all('a', href=True), from element i on
RECURSIVE ExtractAllLinksFrom(_, _, _)
ExtractAllLinksStep(html, base_url, i, href) ==
    IF SkipLink(href) THEN ExtractAllLinksFrom(html, base_url, i + 1)
    ELSE <<LinkDict(html[i], href)>> \o ExtractAllLinksFrom(html, base_url, i + 1)
ExtractAllLinksFrom(html, base_url, i) ==
    IF i > Len(html) THEN <<>>
    ELSE ExtractAllLinksStep(html, base_url, i, Resolve(html[i].href, base_url))

\* _extract_all_links(html_content, base_url)
ExtractAllLinks(html, base_url) == ExtractAllLinksFrom(html, base_url, 1)

\* _extract_all_links has no try block: a urljoin that raises leaves it
ExtractAllLinksRaises(html, base_url) ==
    \E i \in DOMAIN html : ResolveRaises(html[i].href, base_url)

\* hrefs, pages and base URLs the function is applied to
ELHrefs ==
    {"", "#", "#top", "javascript:void(0)", "mailto:hr@acme.com", "tel:+15550100",
     "/jobs", "jobs/1", "../team", "//cdn.acme.com/x", "?page=2",
     "https://jobs.io/a", "ftp://files.acme.com/cv", "//[acme.com/x"}
ELAnchors == {[href |-> h, text |-> "Link"] : h \in ELHrefs}
ELBases == BaseURLs \cup {"http://acme.com/a/b.html?x=1"}
ELPages == UNION {[1..n -> ELAnchors] : n \in 0..MaxLinks}

InitEL ==
    /\ OrchIdle
    /\ FCIdle /\ RSIdle /\ JLIdle /\ BMIdle /\ MoreIdle
    /\ el_html \in ELPages
    /\ el_base \in ELBases
    /\ el_links = <<>>
    /\ el_again = <<>>
    /\ el_pc = "call"

\* one call of _extract_all_links
EL_Call ==
    /\ el_pc = "call"
    /\ IF ExtractAllLinksRaises(el_html, el_base)
       THEN el_pc' = "raised" /\ UNCHANGED el_links
       ELSE el_pc' = "ret" /\ el_links' = ExtractAllLinks(el_html, el_base)
    /\ UNCHANGED <<el_html, el_base, el_again>>
    /\ UNCHANGED <<orchVars, fcVars, rsVars, jlVars, bmVars, moreVars>>

\* the URLs that were returned go through the link resolution once more
EL_Again ==
    /\ el_pc = "ret"
    /\ el_again' = [k \in DOMAIN el_links |-> Resolve(el_links[k].url, el_base)]
    /\ el_pc' = "again"
    /\ UNCHANGED <<el_html, el_base, el_links>>
    /\ UNCHANGED <<orchVars, fcVars, rsVars, jlVars, bmVars, moreVars>>

NextEL == EL_Call \/ EL_Again

SpecEL == InitEL /\ [][NextEL]_vars

IsHttpUrl(u) == StartsWith(u, "http://") \/ StartsWith(u, "https://")

\* C12: no Link is emitted for an href that is empty, is "#", or starts with
\* javascript:, mailto: or tel:, and every emitted Link has an http(s) URL.
InvalidLinksSkipped ==
    el_pc \in {"ret", "again"} =>
        \A k \in DOMAIN el_links :
            /\ ~SkipLink(el_links[k].original_href)
            /\ IsHttpUrl(el_links[k].url)

\* C13: a relative href resolves to an absolute URL, and resolving that URL
\* against the same base again leaves it unchanged.
IsRelativeHref(h) == SchemeEnd(h) = 0

-----------------------------------------------------------------------------
(* The relevance score of find_careers_link for one link, before and after  *)
(* one more occurrence of a careers keyword is added to the link text.      *)

\* the text with one more occurrence of the keyword, as one more word
AddOccurrence(text, keyword) == IF text = "" THEN keyword ELSE text \o " " \o keyword

\* the score of a link and its direct-matching part
ScoreParts(text, url) == [total |-> ScoreOf(text, url), direct |-> DirectScore(text, url, 1)]

\* lower-cased link texts and urls the score is computed for
RSTexts == {"", "re", "jobs", "career", "open roles", "join our team", "news"}
RSUrls == {"https://acme.com/x", "https://acme.com/careers"}
RSKeywords == {careers_keywords[i] : i \in DOMAIN careers_keywords}

InitRS ==
    /\ OrchIdle
    /\ FCIdle /\ ELIdle /\ JLIdle /\ BMIdle /\ MoreIdle
    /\ rs_text \in RSTexts
    /\ rs_url \in RSUrls
    /\ rs_keyword \in RSKeywords
    /\ rs_scores = <<>>
    /\ rs_pc = "call"

\* the scoring loop body for the link as it is
RS_Score ==
    /\ rs_pc = "call"
    /\ rs_scores' = <<ScoreParts(rs_text, rs_url)>>
    /\ rs_pc' = "scored"
    /\ UNCHANGED <<rs_text, rs_url, rs_keyword>>
    /\ UNCHANGED <<orchVars, fcVars, elVars, jlVars, bmVars, moreVars>>

\* the scoring loop body for the link with the occurrence added to its text
RS_ScoreAdded ==
    /\ rs_pc = "scored"
    /\ rs_scores' = Append(rs_scores, ScoreParts(AddOccurrence(rs_text, rs_keyword), rs_url))
    /\ rs_pc' = "added"
    /\ UNCHANGED <<rs_text, rs_url, rs_keyword>>
    /\ UNCHANGED <<orchVars, fcVars, elVars, jlVars, bmVars, moreVars>>

NextRS == RS_Score \/ RS_ScoreAdded

SpecRS == InitRS /\ [][NextRS]_vars

\* C14 as stated: one more occurrence of a careers keyword in the link text
\* never decreases the link's score.
ScoreMonotonic == rs_pc = "added" => rs_scores[2].total >= rs_scores[1].total

\* C14 as amended: one more occurrence of a careers keyword in the link text
\* never decreases the direct-matching part of the score (30 per keyword
\* contained in the text, 25 per keyword contained in the url).
DirectScoreMonotonic == rs_pc = "added" => rs_scores[2].direct >= rs_scores[1].direct

DirectScoreMonotonicWitness ==
    /\ rs_pc = "added"
    /\ rs_text = "jobs" /\ rs_keyword = "job"
    /\ rs_scores[1].direct = 30
    /\ rs_scores[2].direct = 30
    /\ rs_scores[2].total >= rs_scores[1].total

-----------------------------------------------------------------------------
(* HTMLScrapingTool._find_job_links.  The page is given as its a[href]      *)
(* elements in document order, each with its href, its stripped text and    *)
(* the class attributes of its ancestors.                                   *)

job_keywords == <<"job", "career", "position", "role", "opening", "vacancy",
                  "opportunity", "hiring", "employment", "apply", "application">>

\* job_selectors: a[href*="x"] as kind "href", ".x a" as kind "class",
\* [class*="x"] a as kind "class*"
job_selectors ==
    <<[selector |-> "a[href*=\"job\"]", kind |-> "href", arg |-> "job"],
      [selector |-> "a[href*=\"career\"]", kind |-> "href", arg |-> "career"],
      [selector |-> "a[href*=\"position\"]", kind |-> "href", arg |-> "position"],
      [selector |-> "a[href*=\"apply\"]", kind |-> "href", arg |-> "apply"],
      [selector |-> ".job-title a", kind |-> "class", arg |-> "job-title"],
      [selector |-> ".position-title a", kind |-> "class", arg |-> "position-title"],
      [selector |-> ".job-listing a", kind |-> "class", arg |-> "job-listing"],
      [selector |-> ".career-item a", kind |-> "class", arg |-> "career-item"],
      [selector |-> "[class*=\"job\"] a", kind |-> "class*", arg |-> "job"],
      [selector |-> "[class*=\"career\"] a", kind |-> "class*", arg |-> "career"]>>

\* the class tokens of one class attribute
ClassTokens(attr) == {Split(attr, " ")[i] : i \in DOMAIN Split(attr, " ")}

\* soup.select(selector) matches the element
Matches(a, sel) ==
    CASE sel.kind = "href"   -> Contains(a.href, sel.arg)
      [] sel.kind = "class"  -> \E c \in a.ancestors : sel.arg \in ClassTokens(c)
      [] sel.kind = "class*" -> \E c \in a.ancestors : Contains(c, sel.arg)

\* the entry appended by the selector loop
SelectorEntry(a, sel, href) ==
    [url |-> href, title |-> a.text, selector |-> sel.selector, type |-> "selector_match"]

\* the loop over soup.select(selector), from element i on; a urljoin that
\* raises is caught and ends the loop for this selector
RECURSIVE SelectorLoop(_, _, _, _)
SelectorLoop(html, base_url, sel, i) ==
    IF i > Len(html) THEN <<>>
    ELSE IF ~Matches(html[i], sel) \/ html[i].href = ""
    THEN SelectorLoop(html, base_url, sel, i + 1)
    ELSE IF ResolveRaises(html[i].href, base_url) THEN <<>>
    ELSE <<SelectorEntry(html[i], sel, Resolve(html[i].href, base_url))>>
         \o SelectorLoop(html, base_url, sel, i + 1)

\* "First try specific selectors": the loop over job_selectors, from s on
RECURSIVE SelectorPass(_, _, _)
SelectorPass(html, base_url, s) ==
    IF s > Len(job_selectors) THEN <<>>
    ELSE SelectorLoop(html, base_url, job_selectors[s], 1) \o SelectorPass(html, base_url, s + 1)

\* keyword_score: the job keywords, from k on, found in the text or the href
RECURSIVE KeywordScore(_, _, _)
KeywordScore(text, href_lower, k) ==
    IF k > Len(job_keywords) THEN 0
    ELSE (IF Contains(text, job_keywords[k]) \/ Contains(href_lower, job_keywords[k]) THEN 1 ELSE 0)
         + KeywordScore(text, href_lower, k + 1)

KeywordScoreOf(a) == KeywordScore(Lower(a.text), Lower(a.href), 1)

\* the entry appended by the keyword loop
KeywordEntry(a, href) ==
    [url |-> href, title |-> a.text, keyword_score |-> KeywordScoreOf(a), type |-> "keyword_match"]

\* any(existing['url'] == href for existing in job_links)
AlreadyAdded(job_links, href) == \E k \in DOMAIN job_links : job_links[k].url = href

\* job_links after the keyword loop has seen one more element
KeywordStep(job_links, a, href) ==
    IF AlreadyAdded(job_links, href) THEN job_links ELSE Append(job_links, KeywordEntry(a, href))

\* "Then try keyword-based matching": the loop over find_all('a', href=True)
RECURSIVE KeywordPass(_, _, _, _)
KeywordPass(html, base_url, job_links, i) ==
    IF i > Len(html) THEN job_links
    ELSE IF KeywordScoreOf(html[i]) > 0
    THEN KeywordPass(html, base_url,
                     KeywordStep(job_links, html[i], Resolve(html[i].href, base_url)), i + 1)
    ELSE KeywordPass(html, base_url, job_links, i + 1)

\* the keyword loop has no try block: a urljoin that raises leaves the function
FindJobLinksRaises(html, base_url) ==
    \E i \in DOMAIN html :
        KeywordScoreOf(html[i]) > 0 /\ ResolveRaises(html[i].href, base_url)

\* the list left as the two passes built it
NoDedup(job_links, i, seen_urls) == job_links

\* "Remove duplicates": the entries from i on whose url is not in seen_urls
RECURSIVE Unique(_, _, _)
Unique(job_links, i, seen_urls) ==
    IF i > Len(job_links) THEN <<>>
    ELSE IF job_links[i].url \in seen_urls THEN Unique(job_links, i + 1, seen_urls)
    ELSE <<job_links[i]>> \o Unique(job_links, i + 1, seen_urls \cup {job_links[i].url})

\* the sort key (x.get('keyword_score', 0), 1 if selector_match else 0)
SortKey(x) ==
    <<IF "keyword_score" \in DOMAIN x THEN x.keyword_score ELSE 0,
      IF x.type = "selector_match" THEN 1 ELSE 0>>

\* tuple comparison k1 > k2
KeyGreater(k1, k2) == k1[1] > k2[1] \/ (k1[1] = k2[1] /\ k1[2] > k2[2])

\* a sort that leaves the list in the order the passes found it
InsertLast(sorted, x, i) == Append(sorted, x)

\* list.sort(key, reverse=True) is stable: x goes before the first entry, from
\* i on, with a smaller key
RECURSIVE InsertDescending(_, _, _)
InsertDescending(sorted, x, i) ==
    IF i > Len(sorted) THEN Append(sorted, x)
    ELSE IF KeyGreater(SortKey(x), SortKey(sorted[i]))
    THEN SubSeq(sorted, 1, i - 1) \o <<x>> \o SubSeq(sorted, i, Len(sorted))
    ELSE InsertDescending(sorted, x, i + 1)

\* unique_links.sort(key=..., reverse=True)
RECURSIVE SortDescending(_, _, _)
SortDescending(links, i, sorted) ==
    IF i > Len(links) THEN sorted
    ELSE SortDescending(links, i + 1, InsertDescending(sorted, links[i], 1))

\* _find_job_links(html_content, base_url)
FindJobLinks(html, base_url) ==
    SortDescending(Unique(KeywordPass(html, base_url, SelectorPass(html, base_url, 1), 1), 1, {}),
                   1, <<>>)

\* elements, pages and base URLs the function is applied to
JLAnchors ==
    {[href |-> "/jobs/1", text |-> "Backend Engineer", ancestors |-> {}],
     [href |-> "/p/7", text |-> "Data Analyst", ancestors |-> {"card job-listing"}],
     [href |-> "/p/7", text |-> "Apply now", ancestors |-> {}],
     [href |-> "/open", text |-> "Openings and roles", ancestors |-> {}],
     [href |-> "/Team", text |-> "We are hiring", ancestors |-> {}],
     [href |-> "/about", text |-> "About", ancestors |-> {"nav"}],
     [href |-> "", text |-> "Careers", ancestors |-> {"career-item"}],
     [href |-> "//[x", text |-> "Sales", ancestors |-> {"jobs"}],
     [href |-> "//[x/role", text |-> "Sales", ancestors |-> {}]}
JLPages == UNION {[1..n -> JLAnchors] : n \in 0..MaxLinks}

InitJL ==
    /\ OrchIdle
    /\ FCIdle /\ ELIdle /\ RSIdle /\ BMIdle /\ MoreIdle
    /\ jl_html \in JLPages
    /\ jl_base \in BaseURLs
    /\ jl_result = <<>>
    /\ jl_pc = "call"

\* one call of _find_job_links
JL_Call ==
    /\ jl_pc = "call"
    /\ IF FindJobLinksRaises(jl_html, jl_base)
       THEN jl_pc' = "raised" /\ UNCHANGED jl_result
       ELSE jl_pc' = "ret" /\ jl_result' = FindJobLinks(jl_html, jl_base)
    /\ UNCHANGED <<jl_html, jl_base>>
    /\ UNCHANGED <<orchVars, fcVars, elVars, rsVars, bmVars, moreVars>>

NextJL == JL_Call

SpecJL == InitJL /\ [][NextJL]_vars

\* the URLs the selector pass finds and the URLs the keyword pass looks at
UrlsOf(job_links) == {job_links[i].url : i \in DOMAIN job_links}
SelectorUrls(html, base_url) == UrlsOf(SelectorPass(html, base_url, 1))
KeywordUrls(html, base_url) ==
    {Resolve(html[i].href, base_url) : i \in {j \in DOMAIN html : KeywordScoreOf(html[j]) > 0}}

\* C15: the returned list holds each URL at most once, and a URL found by the
\* selector pass and by the keyword pass is held by its selector_match entry.
JobLinksUnique ==
    jl_pc = "ret" =>
        /\ \A i, j \in DOMAIN jl_result : jl_result[i].url = jl_result[j].url => i = j
        /\ \A i \in DOMAIN jl_result :
              jl_result[i].url \in SelectorUrls(jl_html, jl_base) =>
                  jl_result[i].type = "selector_match"
        /\ UrlsOf(jl_result) = SelectorUrls(jl_html, jl_base) \cup KeywordUrls(jl_html, jl_base)

JobLinksUniqueWitness ==
    /\ jl_pc = "ret"
    /\ jl_html = <<[href |-> "/p/7", text |-> "Apply now", ancestors |-> {}],
                   [href |-> "/p/7", text |-> "Data Analyst", ancestors |-> {"card job-listing"}]>>
    /\ Len(jl_result) = 1
    /\ jl_result[1].type = "selector_match"
    /\ jl_result[1].title = "Data Analyst"

\* C16: the returned list is in descending order of keyword_score (0 for an
\* entry without one), and among entries of equal keyword_score the
\* selector_match entries come before the keyword_match entries.
JobLinksSorted ==
    jl_pc = "ret" =>
        \A i, j \in DOMAIN jl_result :
            i < j =>
                /\ SortKey(jl_result[i])[1] >= SortKey(jl_result[j])[1]
                /\ (SortKey(jl_result[i])[1] = SortKey(jl_result[j])[1]
                      => ~(jl_result[i].type = "keyword_match"
                           /\ jl_result[j].type = "selector_match"))

JobLinksSortedWitness ==
    /\ jl_pc = "ret"
    /\ Len(jl_html) = 2
    /\ jl_html[1].href = "/jobs/1"
    /\ jl_html[2].href = "/open"
    /\ Len(jl_result) = 2
    /\ jl_result[1].type = "keyword_match" /\ jl_result[1].keyword_score = 2
    /\ jl_result[2].type = "selector_match"

-----------------------------------------------------------------------------
(* fuzzywuzzy.fuzz.ratio and token_sort_ratio (ASCII strings)               *)

\* fuzz.ratio(s1, s2): equal strings give 100, an empty one gives 0, else
\* int(round(100 * SequenceMatcher(None, s1, s2).ratio()))
Ratio(s1, s2) ==
    IF s1 = s2 THEN 100
    ELSE IF s1 = "" \/ s2 = "" THEN 0
    ELSE RoundHalfEven(200 * MatchCount(s1, s2), Len(s1) + Len(s2))

Digits == {"0", "1", "2", "3", "4", "5", "6", "7", "8", "9"}

\* the characters the regex \W leaves alone
IsWordChar(c) ==
    c \in Letters \/ c \in Digits \/ c = "_" \/ (\E i \in 1..26 : UpperLetters[i] = c)

\* utils.full_process before strip(): non-word characters become spaces, the
\* rest is lower-cased
RECURSIVE ProcessChars(_)
ProcessChars(s) ==
    IF s = "" THEN ""
    ELSE (IF IsWordChar(Ch(s, 1)) THEN LowerChar(Ch(s, 1)) ELSE " ") \o ProcessChars(From(s, 2))

\* s.strip() for spaces
RECURSIVE Strip(_)
Strip(s) ==
    IF s = "" THEN ""
    ELSE IF Ch(s, 1) = " " THEN Strip(From(s, 2))
    ELSE IF Ch(s, Len(s)) = " " THEN Strip(SubSeq(s, 1, Len(s) - 1))
    ELSE s

\* utils.full_process(s, force_ascii=True)
FullProcess(s) == Strip(ProcessChars(s))

\* s.split(): the words between runs of spaces
PySplit(s) == SelectSeq(Split(s, " "), LAMBDA x : x # "")

\* code point order of the characters full_process leaves
CharOrder == " 0123456789_abcdefghijklmnopqrstuvwxyz"
CharRank(c) == Find(CharOrder, c, 1)

\* a < b for strings
RECURSIVE StrLess(_, _)
StrLess(a, b) ==
    IF b = "" THEN FALSE
    ELSE IF a = "" THEN TRUE
    ELSE IF Ch(a, 1) = Ch(b, 1) THEN StrLess(From(a, 2), From(b, 2))
    ELSE CharRank(Ch(a, 1)) < CharRank(Ch(b, 1))

\* sorted(tokens): x goes before the first token, from i on, that is greater
RECURSIVE InsertToken(_, _, _)
InsertToken(sorted, x, i) ==
    IF i > Len(sorted) THEN Append(sorted, x)
    ELSE IF StrLess(x, sorted[i])
    THEN SubSeq(sorted, 1, i - 1) \o <<x>> \o SubSeq(sorted, i, Len(sorted))
    ELSE InsertToken(sorted, x, i + 1)

RECURSIVE SortTokens(_, _, _)
SortTokens(tokens, i, sorted) ==
    IF i > Len(tokens) THEN sorted
    ELSE SortTokens(tokens, i + 1, InsertToken(sorted, tokens[i], 1))

\* fuzz._process_and_sort(s, force_ascii=True)
ProcessAndSort(s) == Strip(Join(SortTokens(PySplit(FullProcess(s)), 1, <<>>), " "))

\* fuzz.token_sort_ratio(s1, s2)
TokenSortRatio(s1, s2) == Ratio(ProcessAndSort(s1), ProcessAndSort(s2))

-----------------------------------------------------------------------------
(* JobMatchingTool.find_best_match                                          *)
(* match_score is kept in tenths of a point (an integer): the code's        *)
(* base_score + url_bonus + location_bonus + keyword_bonus is               *)
(* max(ts, 0.8 * ps) + 0.3 * us + lb + kb, every term a multiple of 0.1.    *)

\* link.get(key, '')
GetOrEmpty(link, key) == IF HasKey(link, key) THEN link[key] ELSE ""

\* title_similarity = fuzz.token_sort_ratio(job_title_lower, url): the wrong argument
TitleSimilarityOfUrl(job_title_lower, title, url) == TokenSortRatio(job_title_lower, url)

\* title_similarity = fuzz.token_sort_ratio(job_title_lower, title)
TitleSimilarity(job_title_lower, title, url) == TokenSortRatio(job_title_lower, title)

\* location_bonus: 20 for the location in the title, else 10 for it in the url
LocationBonus(location_lower, title, url) ==
    IF location_lower # "" /\ Contains(title, location_lower) THEN 20
    ELSE IF location_lower # "" /\ Contains(url, location_lower) THEN 10
    ELSE 0

\* keyword_bonus: the loop over keywords = job_title_lower.split(), from word i on
RECURSIVE KeywordBonus(_, _, _)
KeywordBonus(keywords, title, i) ==
    IF i > Len(keywords) THEN 0
    ELSE (IF Len(keywords[i]) > 2
          THEN (IF Contains(title, keywords[i]) THEN 15
                ELSE IF PartialRatio(keywords[i], title) > 85 THEN 10
                ELSE 0)
          ELSE 0)
         + KeywordBonus(keywords, title, i + 1)

\* total_score in tenths: 10 * (max(ts, ps * 0.8) + us * 0.3 + lb + kb)
TotalScore(ts, ps, us, lb, kb) ==
    (IF 10 * ts >= 8 * ps THEN 10 * ts ELSE 8 * ps) + 3 * us + 10 * lb + 10 * kb

\* {**link, 'match_score': ..., ...}
MatchEntry(link, ts, ps, us, lb, kb) ==
    [match_score |-> TotalScore(ts, ps, us, lb, kb),
     title_similarity |-> ts,
     partial_similarity |-> ps,
     url_similarity |-> us,
     location_bonus |-> lb,
     keyword_bonus |-> kb] @@ link

\* the body of the loop for one link, title and url already lower-cased
ScoreTitleUrl(link, job_title_lower, location_lower, title, url) ==
    MatchEntry(link,
               TitleSimilarity(job_title_lower, title, url),
               PartialRatio(job_title_lower, title),
               PartialRatio(job_title_lower, url),
               LocationBonus(location_lower, title, url),
               KeywordBonus(PySplit(job_title_lower), title, 1))

ScoreLink(link, job_title_lower, location_lower) ==
    ScoreTitleUrl(link, job_title_lower, location_lower,
                  Lower(GetOrEmpty(link, "title")), Lower(GetOrEmpty(link, "url")))

\* the scores are written into the caller's link dicts
JobLinksUpdated(job_links, matches) == matches

\* the caller's job_links once the loop is over: {**link, ...} builds a new
\* dict for every match and the sort works on matches
JobLinksAfter(job_links, matches) == job_links

\* matches after the loop
ScoreLinks(job_links, job_title_lower, location_lower) ==
    [i \in 1..Len(job_links) |-> ScoreLink(job_links[i], job_title_lower, location_lower)]

\* x is appended, whatever its score
InsertMatchLast(sorted, x, i) == Append(sorted, x)

\* matches.sort(key=match_score, reverse=True) is stable: x goes before the
\* first entry, from i on, with a strictly smaller score
RECURSIVE InsertMatch(_, _, _)
InsertMatch(sorted, x, i) ==
    IF i > Len(sorted) THEN Append(sorted, x)
    ELSE IF sorted[i].match_score < x.match_score
    THEN SubSeq(sorted, 1, i - 1) \o <<x>> \o SubSeq(sorted, i, Len(sorted))
    ELSE InsertMatch(sorted, x, i + 1)

RECURSIVE SortMatches(_, _, _)
SortMatches(matches, i, sorted) ==
    IF i > Len(matches) THEN sorted
    ELSE SortMatches(matches, i + 1, InsertMatch(sorted, matches[i], 1))

\* the thresholds are exclusive
MatchConfidenceStrict(score) ==
    IF score > 80 * 10 THEN "high"
    ELSE IF score > 60 * 10 THEN "medium"
    ELSE IF score > 40 * 10 THEN "low"
    ELSE "very_low"

\* _get_match_confidence(score), score in tenths
MatchConfidence(score) ==
    IF score >= 80 * 10 THEN "high"
    ELSE IF score >= 60 * 10 THEN "medium"
    ELSE IF score >= 40 * 10 THEN "low"
    ELSE "very_low"

\* matches[:10]
Top10(matches) == SubSeq(matches, 1, IF Len(matches) < 10 THEN Len(matches) ELSE 10)

\* the result for the sorted, non-empty matches
BestMatchFound(matches) ==
    [success |-> TRUE,
     best_match |-> matches[1],
     all_matches |-> Top10(matches),
     match_confidence |-> MatchConfidence(matches[1].match_score),
     status |-> "best_match_found"]

\* the empty list is scored like any other
NoLinksProvidedIgnored(job_links) == FALSE

\* if not job_links
NoLinksProvided(job_links) == job_links = <<>>

\* the function after the scoring loop has filled matches
FindBestMatchFrom(job_links, matches) ==
    IF NoLinksProvided(job_links)
    THEN [success |-> FALSE,
          error |-> "No job links provided for matching",
          status |-> "no_links_provided"]
    ELSE IF Len(matches) > 0
    THEN BestMatchFound(SortMatches(matches, 1, <<>>))
    ELSE [success |-> FALSE, error |-> "No job matches found", status |-> "no_matches_found"]

\* location.lower() if location else ""
LocationLower(location) == IF location = None THEN "" ELSE Lower(location)

\* find_best_match(job_links, job_title, location)
FindBestMatch(job_links, job_title, location) ==
    FindBestMatchFrom(job_links, ScoreLinks(job_links, Lower(job_title), LocationLower(location)))

-----------------------------------------------------------------------------
(* find_best_match applied as a pure function                               *)

MaxCands == 11

BMPool ==
    <<[title |-> "Sales", url |-> "/p/1"],
      [title |-> "Salez", url |-> ""],
      [title |-> "Salon", url |-> ""],
      [title |-> "Sauna", url |-> ""],
      [title |-> "Sales Manager Berlin", url |-> "/jobs/sales-manager-berlin"],
      [title |-> "Data Analyst", url |-> "/p/7"],
      [title |-> "Senior Data Analyst (Berlin)", url |-> "/jobs/data-analyst-berlin"],
      [title |-> "Analyst, Data", url |-> "/p/8"],
      [url |-> "/jobs/berlin"]>>

\* no candidate, one, two, and ten or more: the pool from its k-th entry on, repeated
BMLists ==
    {<<>>}
    \cup {<<BMPool[a]>> : a \in DOMAIN BMPool}
    \cup {<<BMPool[a], BMPool[b]>> : a, b \in DOMAIN BMPool}
    \cup {[i \in 1..n |-> BMPool[((i + k) % Len(BMPool)) + 1]] : n \in 10..MaxCands, k \in DOMAIN BMPool}

BMTitles == {"Sales", "Data Analyst"}
BMLocations == {None, "Berlin"}

InitBM ==
    /\ OrchIdle
    /\ FCIdle /\ ELIdle /\ RSIdle /\ JLIdle /\ MoreIdle
    /\ bm_links \in BMLists
    /\ bm_title \in BMTitles
    /\ bm_location \in BMLocations
    /\ bm_matches = <<>>
    /\ bm_result = NoResult
    /\ bm_pc = "call"

\* one call of find_best_match; every exception in its body is caught
BM_Call ==
    /\ bm_pc = "call"
    /\ bm_matches' = IF NoLinksProvided(bm_links) THEN <<>>
                     ELSE ScoreLinks(bm_links, Lower(bm_title), LocationLower(bm_location))
    /\ bm_result' = FindBestMatchFrom(bm_links, bm_matches')
    /\ bm_links' = JobLinksAfter(bm_links, bm_matches')
    /\ bm_pc' = "ret"
    /\ UNCHANGED <<bm_title, bm_location>>
    /\ UNCHANGED <<orchVars, fcVars, elVars, rsVars, jlVars, moreVars>>

NextBM == BM_Call

SpecBM == InitBM /\ [][NextBM]_vars

\* the candidate's total score, recomputed from its own parts
TotalOf(m) ==
    TotalScore(m.title_similarity, m.partial_similarity, m.url_similarity,
               m.location_bonus, m.keyword_bonus)

\* C17: for a non-empty list, best_match is a candidate whose total score
\* (base + url bonus + location bonus + keyword bonus) no candidate exceeds,
\* all_matches is sorted descending by that score, has min(10, candidates)
\* entries, each of them a scored candidate, and best_match is its first.
BestMatchIsMaximum ==
    (bm_pc = "ret" /\ bm_links # <<>>) =>
        /\ bm_result.success
        /\ \E i \in DOMAIN bm_matches : bm_result.best_match = bm_matches[i]
        /\ bm_result.best_match.match_score = TotalOf(bm_result.best_match)
        /\ \A i \in DOMAIN bm_matches :
              bm_matches[i].match_score <= bm_result.best_match.match_score
        /\ Len(bm_result.all_matches) = (IF Len(bm_links) < 10 THEN Len(bm_links) ELSE 10)
        /\ \A i \in DOMAIN bm_result.all_matches :
              /\ \E j \in DOMAIN bm_matches : bm_result.all_matches[i] = bm_matches[j]
              /\ \A j \in DOMAIN bm_result.all_matches :
                    i < j => bm_result.all_matches[i].match_score
                               >= bm_result.all_matches[j].match_score
        /\ bm_result.best_match = bm_result.all_matches[1]

\* eleven candidates, the best of them not the first given, ten returned
BestMatchIsMaximumWitness ==
    /\ bm_pc = "ret"
    /\ Len(bm_links) = 11
    /\ Len(bm_result.all_matches) = 10
    /\ bm_result.best_match.title = "Sales Manager Berlin"
    /\ GetOrEmpty(bm_links[1], "title") = "Salez"
    /\ bm_result.all_matches[10].match_score < bm_result.best_match.match_score

\* C18: the confidence is decided by the best match's total score alone:
\* high from 80, medium from 60 to below 80, low from 40 to below 60,
\* very_low below 40 (scores in tenths).
ConfidenceTiers ==
    (bm_pc = "ret" /\ bm_result.success) =>
        /\ bm_result.match_confidence = "high"
              <=> bm_result.best_match.match_score >= 800
        /\ bm_result.match_confidence = "medium"
              <=> (bm_result.best_match.match_score >= 600
                   /\ bm_result.best_match.match_score < 800)
        /\ bm_result.match_confidence = "low"
              <=> (bm_result.best_match.match_score >= 400
                   /\ bm_result.best_match.match_score < 600)
        /\ bm_result.match_confidence = "very_low"
              <=> bm_result.best_match.match_score < 400

\* a best match of exactly 80 points is of high confidence
ConfidenceTiersWitness ==
    /\ bm_pc = "ret"
    /\ bm_result.success
    /\ bm_result.best_match.match_score = 800
    /\ bm_result.match_confidence = "high"

\* C19: for an empty candidate list the call returns, with success false, an
\* error, the status no_links_provided and no best_match.
EmptyListNoCandidates ==
    (bm_pc # "call" /\ bm_links = <<>>) =>
        /\ bm_pc = "ret"
        /\ bm_result.success = FALSE
        /\ HasKey(bm_result, "error")
        /\ bm_result.status = "no_links_provided"
        /\ ~HasKey(bm_result, "best_match")

EmptyListNoCandidatesWitness ==
    /\ bm_pc = "ret"
    /\ bm_links = <<>>
    /\ bm_result.error = "No job links provided for matching"

\* the i-th candidate's title is the query title, byte for byte
IdenticalTitle(i) == HasKey(bm_links[i], "title") /\ bm_links[i].title = bm_title

\* C20 as stated: a candidate with the query's title has title_similarity 100
\* and is best_match whenever no other candidate has the same total score.
IdenticalTitleIsBest ==
    bm_pc = "ret" =>
        \A i \in DOMAIN bm_matches :
            IdenticalTitle(i) =>
                /\ bm_matches[i].title_similarity = 100
                /\ (\A j \in DOMAIN bm_matches :
                        j # i => bm_matches[j].match_score # bm_matches[i].match_score)
                   => bm_result.best_match = bm_matches[i]

\* C20: a candidate with the query's title has title_similarity 100 and is
\* best_match whenever every other candidate has a lower total score.
IdenticalTitleBestIfHighest ==
    bm_pc = "ret" =>
        \A i \in DOMAIN bm_matches :
            IdenticalTitle(i) =>
                /\ bm_matches[i].title_similarity = 100
                /\ (\A j \in DOMAIN bm_matches :
                        j # i => bm_matches[j].match_score < bm_matches[i].match_score)
                   => bm_result.best_match = bm_matches[i]

\* the candidate with the query's title is given second and returned as best
IdenticalTitleBestIfHighestWitness ==
    /\ bm_pc = "ret"
    /\ Len(bm_links) = 2
    /\ IdenticalTitle(2)
    /\ bm_matches[2].title_similarity = 100
    /\ bm_matches[1].match_score < bm_matches[2].match_score
    /\ bm_result.best_match = bm_matches[2]

-----------------------------------------------------------------------------
(* Further properties of the orchestrator *)

\* C25: when AnalyzeCareersPage, FindJobListings, FindSpecificJob or
\* ExtractJobData is about to scrape the current page, the navigator's current
\* URL is the URL the preceding stage returned: careers_url for the first two,
\* job_listings_url and specific_job_url for the others.
ScrapesChosenPage ==
    /\ pc = "s3_scrape" => current_url = careers_url
    /\ pc = "s4_scrape" => current_url = careers_url
    /\ pc = "s5_scrape" => current_url = job_listings_url
    /\ pc = "s6_scrape" => current_url = specific_job_url

\* C30: when FindJobListings has taken the use_search branch, the stage has
\* returned whatever the search did, and the job_listings_url it returned is
\* a URL, never None.
UseSearchReturnsUrl ==
    (decision # NoResult /\ ActionOf(decision) = "use_search" /\ pc # "s4_act") =>
        /\ Len(returned) >= 4
        /\ job_listings_url # Unset
        /\ job_listings_url # None

-----------------------------------------------------------------------------
(* Further properties of find_careers_link *)

\* the link at index i has the score r returns, no link scores higher and no
\* link before it scores as high
FirstOfHighest(scores, links, r, i) ==
    /\ scores[i] = r.score
    /\ links[i].url = r.careers_url
    /\ \A j \in DOMAIN scores : scores[j] <= scores[i]
    /\ \A j \in DOMAIN scores : j < i => scores[j] < scores[i]

HighestFirstHolds(scores, links, r) ==
    IF r.status = "careers_link_found"
    THEN \E i \in DOMAIN scores : FirstOfHighest(scores, links, r, i)
    ELSE r.score = 0

\* C26: when find_careers_link returns a link, the returned score is the
\* maximum of the links' scores and the link is the first in document order
\* with that score; when it returns the fallback the score field is 0.
HighestScoreFirst ==
    (fc_pc = "ret" /\ HasKey(fc_result, "careers_url")) =>
        HighestFirstHolds(ScoresOf(fc_html, fc_base), ExtractLinks(fc_html, fc_base), fc_result)

\* two links with different URLs share the highest score, the first is returned
HighestScoreFirstWitness ==
    /\ fc_pc = "ret"
    /\ Len(fc_html) = 2
    /\ fc_html[1].href = "/y"
    /\ fc_html[2].href = "/x"
    /\ fc_base = "https://acme.com"
    /\ fc_result.score = 60
    /\ fc_result.careers_url = "https://acme.com/y"

-----------------------------------------------------------------------------
(* Ownership: process_job_request and find_best_match together *)

InitOwn == Init \/ InitBM

NextOwn == Next \/ NextBM

SpecOwn == InitOwn /\ [][NextOwn]_vars

-----------------------------------------------------------------------------
(* WebAgent.search_jobs_on_page over HTMLScrapingTool.extract_forms *)

\* an input as extract_forms builds it: every key is present and holds None
\* when the element lacks the attribute; type defaults to "text"
FormInput(type, name, id, placeholder) ==
    [type |-> type, name |-> name, id |-> id, placeholder |-> placeholder]

\* search_input = None, and the AttributeError in place of a search input
NoSearchInput == [search_input |-> None]
LowerRaised == [raised |-> "AttributeError"]

\* extract_forms raising in place of its result
FormsRaised == [raised |-> "Exception"]

search_words == <<"search", "job", "title", "keyword", "query">>

\* input_field.get("name", "").lower(): the key is always present, so a
\* missing attribute gives None and .lower() raises AttributeError
LowerRaises(input_field) ==
    input_field.name = None \/ input_field.placeholder = None

SuitableInput(input_field) ==
    \E i \in DOMAIN search_words :
        \/ Contains(Lower(input_field.name), search_words[i])
        \/ Contains(Lower(input_field.placeholder), search_words[i])

\* the loop over form["inputs"]: the first suitable text or search input,
\* NoSearchInput when there is none, LowerRaised when .lower() raises first
RECURSIVE ScanInputs(_, _)
ScanInputs(inputs, i) ==
    IF i > Len(inputs) THEN NoSearchInput
    ELSE IF inputs[i].type \notin {"text", "search"} THEN ScanInputs(inputs, i + 1)
    ELSE IF LowerRaises(inputs[i]) THEN LowerRaised
    ELSE IF SuitableInput(inputs[i]) THEN inputs[i]
    ELSE ScanInputs(inputs, i + 1)

\* the loop over forms_result["forms"], left at the first form with a
\* search input
RECURSIVE ScanForms(_, _)
ScanForms(forms, j) ==
    IF j > Len(forms) THEN NoSearchInput
    ELSE IF ScanInputs(forms[j].inputs, 1) = NoSearchInput THEN ScanForms(forms, j + 1)
    ELSE ScanInputs(forms[j].inputs, 1)

SearchSelector(search_input) ==
    IF Truthy(search_input.id) THEN "#" \o search_input.id
    ELSE IF Truthy(search_input.name) THEN "input[name='" \o search_input.name \o "']"
    ELSE "input[type='search'], input[type='text']"

NoFormsFound(forms_result) ==
    \/ ~(HasKey(forms_result, "success") /\ forms_result.success)
    \/ ~(HasKey(forms_result, "forms") /\ forms_result.forms # <<>>)

SearchFailed(msg) == [success |-> FALSE, error |-> msg]

FillSent(selector, job_title) ==
    [action |-> "fill", selector |-> selector, value |-> job_title]
SubmitSent(selector) ==
    [action |-> "submit", selector |-> selector, value |-> None]

SubmitAlways(fill) == TRUE

\* if fill_result.get("success")
SubmitAfterFill(fill) == fill = "ok"

\* the submit interaction and what follows it
SubmitSearch(selector, job_title, submit, url) ==
    IF submit = "raised"
    THEN [result |-> SearchFailed("submit raised"),
          log |-> <<FillSent(selector, job_title), SubmitSent(selector)>>]
    ELSE IF submit = "ok"
    THEN [result |-> [success |-> TRUE, current_url |-> url,
                      message |-> "Successfully searched for '" \o job_title \o "'"],
          log |-> <<FillSent(selector, job_title), SubmitSent(selector)>>]
    ELSE [result |-> SearchFailed("Failed to submit search"),
          log |-> <<FillSent(selector, job_title), SubmitSent(selector)>>]

\* the fill interaction and what follows it
FillAndSubmit(selector, job_title, fill, submit, url) ==
    IF fill = "raised"
    THEN [result |-> SearchFailed("fill raised"), log |-> <<FillSent(selector, job_title)>>]
    ELSE IF SubmitAfterFill(fill) THEN SubmitSearch(selector, job_title, submit, url)
    ELSE [result |-> SearchFailed("Failed to submit search"),
          log |-> <<FillSent(selector, job_title)>>]

SearchWithInput(search_input, job_title, fill, submit, url) ==
    IF search_input = LowerRaised
    THEN [result |-> SearchFailed("'NoneType' object has no attribute 'lower'"), log |-> <<>>]
    ELSE IF search_input = NoSearchInput
    THEN [result |-> SearchFailed("No suitable search input found"), log |-> <<>>]
    ELSE FillAndSubmit(SearchSelector(search_input), job_title, fill, submit, url)

\* search_jobs_on_page; forms_result is FormsRaised when extract_forms raises.
\* Gives the returned dict and the interactions sent to the page.
SearchJobsOnPageOf(forms_result, job_title, fill, submit, url) ==
    IF forms_result = FormsRaised
    THEN [result |-> SearchFailed("extract_forms raised"), log |-> <<>>]
    ELSE IF NoFormsFound(forms_result)
    THEN [result |-> SearchFailed("No search forms found on page"), log |-> <<>>]
    ELSE SearchWithInput(ScanForms(forms_result.forms, 1), job_title, fill, submit, url)

-----------------------------------------------------------------------------
(* search_jobs_on_page applied to the forms of a page *)

MaxForms == 2

SJInputs ==
    {FormInput("text", "q", "job-search", "Search jobs"),
     FormInput("search", "keyword", None, ""),
     FormInput("text", "", None, "Job Title"),
     FormInput("email", "search", None, None),
     FormInput("text", "email", None, "Your email"),
     FormInput("text", "q", None, None)}

SJForms ==
    {[inputs |-> <<>>]}
    \cup {[inputs |-> <<a>>] : a \in SJInputs}
    \cup {[inputs |-> <<FormInput("text", "email", None, "Your email"), a>>] : a \in SJInputs}

SJFormLists == UNION {[1..n -> SJForms] : n \in 0..MaxForms}

SJFormsResults ==
    {FormsRaised,
     [success |-> FALSE, error |-> "No page loaded", status |-> "forms_extraction_failed"]}
    \cup {[success |-> TRUE, forms |-> f, total_forms |-> Len(f), status |-> "forms_extracted"] :
            f \in SJFormLists}

InteractOutcomes == {"ok", "failed", "raised"}

InitSJ ==
    /\ OrchIdle
    /\ FCIdle /\ ELIdle /\ RSIdle /\ JLIdle /\ BMIdle /\ HJIdle /\ XDIdle
    /\ sj_forms \in SJFormsResults
    /\ sj_fill = ""
    /\ sj_submit = ""
    /\ sj_log = <<>>
    /\ sj_result = NoResult
    /\ sj_pc = "call"

SJ_Return(r, fill, submit) ==
    /\ sj_result' = r.result
    /\ sj_log' = r.log
    /\ sj_fill' = IF Len(r.log) >= 1 THEN fill ELSE ""
    /\ sj_submit' = IF Len(r.log) >= 2 THEN submit ELSE ""
    /\ sj_pc' = "ret"

SJ_Call ==
    /\ sj_pc = "call"
    /\ \E job_title \in JobTitles, fill \in InteractOutcomes, submit \in InteractOutcomes,
          url \in SubmitURLs :
         SJ_Return(SearchJobsOnPageOf(sj_forms, job_title, fill, submit, url), fill, submit)
    /\ UNCHANGED sj_forms
    /\ UNCHANGED <<orchVars, fcVars, elVars, rsVars, jlVars, bmVars, hjVars, xdVars>>

NextSJ == SJ_Call

SpecSJ == InitSJ /\ [][NextSJ]_vars

\* some text or search input of some form names a search word
HasSearchInput(forms_result) ==
    /\ forms_result # FormsRaised
    /\ HasKey(forms_result, "forms")
    /\ \E j \in DOMAIN forms_result.forms :
         \E i \in DOMAIN forms_result.forms[j].inputs :
            LET f == forms_result.forms[j].inputs[i]
            IN  /\ f.type \in {"text", "search"}
                /\ \E k \in {"search", "job", "title", "keyword", "query"} :
                      \/ f.name # None /\ Contains(Lower(f.name), k)
                      \/ f.placeholder # None /\ Contains(Lower(f.placeholder), k)

SubmitFollowsFill(log) ==
    \A k \in DOMAIN log :
        log[k].action = "submit" =>
            /\ k > 1
            /\ log[k - 1].action = "fill"
            /\ log[k - 1].selector = log[k].selector
            /\ sj_fill = "ok"

\* C29: search_jobs_on_page sends no interaction when no form or no suitable
\* input is found, sends submit only right after a successful fill on the
\* same selector, reports success only when fill and submit both succeeded,
\* and otherwise returns success = FALSE with an error instead of raising.
SearchProtocol ==
    /\ sj_pc # "raised"
    /\ sj_pc = "ret" =>
        /\ sj_log # <<>> => HasSearchInput(sj_forms)
        /\ SubmitFollowsFill(sj_log)
        /\ sj_result.success =>
              /\ Len(sj_log) = 2 /\ sj_log[2].action = "submit"
              /\ sj_fill = "ok" /\ sj_submit = "ok"
        /\ ~sj_result.success => HasKey(sj_result, "error")

\* the second form holds the search input; it was filled and then submitted
SearchProtocolWitness ==
    /\ sj_pc = "ret"
    /\ sj_result.success
    /\ Len(sj_forms.forms) = 2
    /\ sj_log = <<FillSent("input[name='keyword']", "backend engineer"),
                  SubmitSent("input[name='keyword']")>>

-----------------------------------------------------------------------------
(* HTMLScrapingTool._llm_analyze_jobs_heuristic *)

\* an element of soup.find_all([...]): its tag name, get_text(strip=True),
\* its href and onclick attributes and its parent's tag name and href;
\* an attribute the element lacks is None
Element(name, text, href, onclick, parent_name, parent_href) ==
    [name |-> name, text |-> text, href |-> href, onclick |-> onclick,
     parent |-> [name |-> parent_name, href |-> parent_href]]

job_title_indicators ==
    <<"engineer", "manager", "analyst", "consultant", "developer", "specialist",
      "berater", "designer">>

RECURSIVE IndicatorScore(_, _)
IndicatorScore(text_lower, i) ==
    IF i > Len(job_title_indicators) THEN 0
    ELSE (IF Contains(text_lower, job_title_indicators[i]) THEN 20 ELSE 0)
         + IndicatorScore(text_lower, i + 1)

RECURSIVE SearchTermScore(_, _, _)
SearchTermScore(text_lower, search_terms, i) ==
    IF i > Len(search_terms) THEN 0
    ELSE (IF Len(search_terms[i]) > 2 /\ Contains(text_lower, search_terms[i]) THEN 30 ELSE 0)
         + SearchTermScore(text_lower, search_terms, i + 1)

AnyPattern(text_lower, patterns) == \E p \in patterns : Contains(text_lower, p)

JobScore(text_lower, job_title) ==
    IndicatorScore(text_lower, 1)
    + SearchTermScore(text_lower, PySplit(Lower(job_title)), 1)
    + (IF AnyPattern(text_lower, {"(m/w/d)", "(m/f/d)", "full-time", "part-time"}) THEN 25 ELSE 0)
    + (IF AnyPattern(text_lower, {"berater", "ingenieur", "entwickler", "manager"}) THEN 20 ELSE 0)
    - (IF AnyPattern(text_lower, {"cookie", "privacy", "about us", "contact", "footer"})
       THEN 50 ELSE 0)

\* if len(text) < 5 or len(text) > 100: continue
TextSkipped(text) == Len(text) < 5 \/ Len(text) > 100

IsNavigation(onclick_text) ==
    Contains(onclick_text, "location") \/ Contains(onclick_text, "href")

\* the if / elif / elif chain that looks for the URL of an element
AssociatedUrl(element) ==
    IF element.name = "a" /\ Truthy(element.href) THEN element.href
    ELSE IF element.parent.name = "a" THEN element.parent.href
    ELSE IF Truthy(element.onclick) /\ IsNavigation(element.onclick) THEN element.onclick
    ELSE None

IsAbsolute(job_url) == StartsWith(job_url, "http://") \/ StartsWith(job_url, "https://")

\* if job_url and not job_url.startswith(...): urljoin; then job_url or current_url
CandidateUrl(job_url, page_url) ==
    IF ~Truthy(job_url) THEN page_url
    ELSE IF IsAbsolute(job_url) THEN job_url
    ELSE Urljoin(page_url, job_url)

PotentialJob(element, job_score, page_url) ==
    [title |-> element.text, url |-> CandidateUrl(AssociatedUrl(element), page_url),
     score |-> job_score, element |-> element.name]

RECURSIVE PotentialJobs(_, _, _, _)
PotentialJobs(elements, job_title, page_url, i) ==
    IF i > Len(elements) THEN <<>>
    ELSE IF TextSkipped(elements[i].text)
         THEN PotentialJobs(elements, job_title, page_url, i + 1)
    ELSE IF JobScore(Lower(elements[i].text), job_title) >= 30
         THEN <<PotentialJob(elements[i], JobScore(Lower(elements[i].text), job_title),
                             page_url)>>
              \o PotentialJobs(elements, job_title, page_url, i + 1)
    ELSE PotentialJobs(elements, job_title, page_url, i + 1)

\* potential_jobs.sort(key=score, reverse=True): stable, equal scores keep
\* their order
RECURSIVE InsertJob(_, _, _)
InsertJob(sorted, x, i) ==
    IF i > Len(sorted) THEN Append(sorted, x)
    ELSE IF sorted[i].score < x.score
         THEN SubSeq(sorted, 1, i - 1) \o <<x>> \o SubSeq(sorted, i, Len(sorted))
    ELSE InsertJob(sorted, x, i + 1)

RECURSIVE SortJobs(_, _, _)
SortJobs(jobs, i, sorted) ==
    IF i > Len(jobs) THEN sorted
    ELSE SortJobs(jobs, i + 1, InsertJob(sorted, jobs[i], 1))

FoundJob(job) ==
    [title |-> job.title, url |-> job.url,
     description |-> "Found in " \o job.element \o " element",
     relevance_score |-> job.score, location |-> None]

JobsFound(potential_jobs) ==
    [i \in 1..Min({10, Len(potential_jobs)}) |-> FoundJob(potential_jobs[i])]

AnalyzeJobsHeuristic(elements, job_title, page_url) ==
    LET jobs_found == JobsFound(SortJobs(PotentialJobs(elements, job_title, page_url, 1),
                                         1, <<>>))
    IN  [jobs_found |-> jobs_found, total_jobs |-> Len(jobs_found),
         analysis_notes |-> "Analyzed page content semantically"]

-----------------------------------------------------------------------------
(* _llm_analyze_jobs_heuristic applied to the elements of a page *)

MaxElems == 2

RECURSIVE Repeat(_, _)
Repeat(s, n) ==
    IF n = 0 THEN ""
    ELSE IF n = 1 THEN s
    ELSE Repeat(s, n \div 2) \o Repeat(s, n - n \div 2)

HJPool ==
    <<Element("a", "Java Developer (m/w/d)", "/jobs/1", None, "li", None),
      Element("h3", "Backend Developer", None, None, "a", "/jobs/2"),
      Element("div", "Senior Java Developer", None, "location.href='/jobs/3'", "div", None),
      Element("span", "Java Developer Berlin", None, "track()", "li", None),
      Element("h3", "Java Engineer", None, "window.location='/jobs/7'", "a", None),
      Element("a", "Java Developer", "https://jobs.acme.com/9", None, "div", None),
      Element("a", "Cookie and privacy developer", "/privacy", None, "div", None),
      Element("div", "Java", None, None, "div", None),
      Element("div", "Java!", None, None, "div", None),
      Element("a", "Java Developer " \o Repeat("x", 85), "/jobs/long", None, "div", None),
      Element("a", "Java Developer " \o Repeat("x", 86), "/jobs/longer", None, "div", None),
      Element("a", "Java Manager", None, "location.href='/m'", "div", None),
      Element("a", "Analyst", "", None, "div", None)>>

\* no element, one, two, and more than ten: the pool from its k-th entry on
HJPages ==
    UNION {[1..n -> {HJPool[a] : a \in DOMAIN HJPool}] : n \in 0..MaxElems}
    \cup {[i \in 1..(MaxCands + 4) |-> HJPool[((i + k) % Len(HJPool)) + 1]] : k \in DOMAIN HJPool}

HJTitles == {"java developer"}
HJUrls == {"https://acme.com/careers/"}

InitHJ ==
    /\ OrchIdle
    /\ FCIdle /\ ELIdle /\ RSIdle /\ JLIdle /\ BMIdle /\ SJIdle /\ XDIdle
    /\ hj_html \in HJPages
    /\ hj_title \in HJTitles
    /\ hj_url \in HJUrls
    /\ hj_result = NoResult
    /\ hj_pc = "call"

HJ_Call ==
    /\ hj_pc = "call"
    /\ hj_result' = AnalyzeJobsHeuristic(hj_html, hj_title, hj_url)
    /\ hj_pc' = "ret"
    /\ UNCHANGED <<hj_html, hj_title, hj_url>>
    /\ UNCHANGED <<orchVars, fcVars, elVars, rsVars, jlVars, bmVars, sjVars, xdVars>>

NextHJ == HJ_Call

SpecHJ == InitHJ /\ [][NextHJ]_vars

\* the URL an element is given: its own href, else its parent link's href,
\* else its onclick navigation directive, else the current page URL
OwnOrParentOrOnclick(e, page_url) ==
    IF e.name = "a" /\ Truthy(e.href) THEN e.href
    ELSE IF e.parent.name = "a" /\ Truthy(e.parent.href) THEN e.parent.href
    ELSE IF Truthy(e.onclick) /\ IsNavigation(e.onclick) THEN e.onclick
    ELSE page_url

SameOrResolved(url, u, page_url) ==
    url = u \/ (~IsAbsolute(u) /\ url = Urljoin(page_url, u))

CandidateOf(job, e, page_url) ==
    /\ job.title = e.text
    /\ SameOrResolved(job.url, OwnOrParentOrOnclick(e, page_url), page_url)

\* C28: the heuristic returns at most 10 candidates, sorted descending by
\* score, each with score >= 30, text of 5 to 100 characters and a
\* non-empty URL that is the element's own href, else its parent link's
\* href, else an onclick navigation directive, else the current page URL.
HeuristicCandidates ==
    hj_pc = "ret" =>
        /\ Len(hj_result.jobs_found) <= 10
        /\ \A i \in DOMAIN hj_result.jobs_found :
              /\ i > 1 => hj_result.jobs_found[i - 1].relevance_score
                             >= hj_result.jobs_found[i].relevance_score
              /\ hj_result.jobs_found[i].relevance_score >= 30
              /\ Len(hj_result.jobs_found[i].title) \in 5..100
              /\ Truthy(hj_result.jobs_found[i].url)
              /\ \E k \in DOMAIN hj_html :
                    CandidateOf(hj_result.jobs_found[i], hj_html[k], hj_url)

-----------------------------------------------------------------------------
(* The regular expressions of JobMatchingTool's field extractors.  Positions *)
(* are 1-based and 0 stands for "no match"; \s is space, newline and tab.     *)

Whitespace == {" ", "\n", "\t"}

\* s.strip()
StripWs(s) ==
    LET kept == {i \in 1..Len(s) : Ch(s, i) \notin Whitespace}
    IN  IF kept = {} THEN "" ELSE SubSeq(s, Min(kept), Max(kept))

\* last position of the longest run of characters outside stop that starts at q
RunEnd(t, q, stop) ==
    Min({i \in q..(Len(t) + 1) : i = Len(t) + 1 \/ Ch(t, i) \in stop}) - 1

\* first position from p on that holds no whitespace, Len(t) + 1 if none
WsEnd(t, p) ==
    Min({i \in p..(Len(t) + 1) : i = Len(t) + 1 \/ Ch(t, i) \notin Whitespace})

\* \s*([^stop]+) at p: \s* takes all the whitespace it can and gives it back
\* one character at a time until the group can start; the start of the group
SkipWsThenRun(t, p, stop) ==
    LET starts == {q \in p..WsEnd(t, p) : q <= Len(t) /\ Ch(t, q) \notin stop}
    IN  IF starts = {} THEN 0 ELSE Max(starts)

\* :?\s*([^stop]+) where a is the position after the heading word and b the
\* position after its optional s: with the colon, else with the colon in the
\* group, else with the s in the group
GroupAfter(t, a, b, c, stop) ==
    IF SkipWsThenRun(t, c, stop) # 0 THEN SkipWsThenRun(t, c, stop)
    ELSE IF c # b /\ ":" \notin stop THEN b
    ELSE IF b # a THEN a
    ELSE 0

AfterColon(t, b) == IF b <= Len(t) /\ Ch(t, b) = ":" THEN b + 1 ELSE b

AfterS(low, a, opt_s) == IF opt_s /\ a <= Len(low) /\ Ch(low, a) = "s" THEN a + 1 ELSE a

\* the heading pattern tried at position p of the text: start of group 1
GroupStartAt(t, low, p, word, opt_s, stop) ==
    IF p + Len(word) - 1 > Len(t) \/ SubSeq(low, p, p + Len(word) - 1) # word THEN 0
    ELSE GroupAfter(t, p + Len(word), AfterS(low, p + Len(word), opt_s),
                    AfterColon(t, AfterS(low, p + Len(word), opt_s)), stop)

\* re.search(word s? :? \s* ([^stop]+), t, re.IGNORECASE): start of the match
FindHeading(t, word, opt_s, stop) ==
    LET low == Lower(t)
        hits == {p \in 1..Len(t) : GroupStartAt(t, low, p, word, opt_s, stop) # 0}
    IN  IF hits = {} THEN 0 ELSE Min(hits)

\* group 1 of word s? :? \s* ([^:]+(?:\n[^:]+)*): [^:]+ runs over newlines,
\* so the group ends before the next colon or at the end of the text
SectionAt(t, q) == SubSeq(t, q, RunEnd(t, q, {":"}))

SectionBody(t, word, opt_s) ==
    IF FindHeading(t, word, opt_s, {":"}) = 0 THEN None
    ELSE SectionAt(t, GroupStartAt(t, Lower(t), FindHeading(t, word, opt_s, {":"}),
                                   word, opt_s, {":"}))

\* re.split(r'[*\-\n]', s); the bullet character is left out of the texts
item_separators == {"*", "-", "\n"}

RECURSIVE SplitItems(_)
SplitItems(s) ==
    LET seps == {i \in 1..Len(s) : Ch(s, i) \in item_separators}
    IN  IF seps = {} THEN <<s>>
        ELSE <<SubSeq(s, 1, Min(seps) - 1)>> \o SplitItems(From(s, Min(seps) + 1))

KeepItemInclusive(item, low, high) == Len(item) >= low /\ Len(item) <= high

\* if len(item) > low and len(item) < high
KeepItem(item, low, high) == Len(item) > low /\ Len(item) < high

RECURSIVE KeptItems(_, _, _, _)
KeptItems(items, i, low, high) ==
    IF i > Len(items) THEN <<>>
    ELSE (IF KeepItem(StripWs(items[i]), low, high) THEN <<StripWs(items[i])>> ELSE <<>>)
         \o KeptItems(items, i + 1, low, high)

\* items[:10]
First10(items) == SubSeq(items, 1, Min({10, Len(items)}))

\* the loop over the three patterns of a section, left at the first that
\* matches: the items appended to the list
RECURSIVE SectionItems(_, _, _, _, _)
SectionItems(text, patterns, k, low, high) ==
    IF k > Len(patterns) THEN <<>>
    ELSE IF SectionBody(text, patterns[k].word, patterns[k].opt_s) = None
         THEN SectionItems(text, patterns, k + 1, low, high)
    ELSE KeptItems(SplitItems(SectionBody(text, patterns[k].word, patterns[k].opt_s)),
                   1, low, high)

\* the list of the tool's previous call, if the tool kept one
KeptList(field) ==
    IF xd_log = <<>> \/ ~xd_log[Len(xd_log)].result.success THEN <<>>
    ELSE xd_log[Len(xd_log)].result.job_data[field]

\* requirements = [], responsibilities = [], benefits = []: a new list per call
NewList(field) == <<>>

ExtractSection(text, field, patterns, low, high) ==
    First10(NewList(field) \o SectionItems(text, patterns, 1, low, high))

Pattern(word, opt_s) == [word |-> word, opt_s |-> opt_s]

req_patterns ==
    <<Pattern("requirement", TRUE), Pattern("qualification", TRUE), Pattern("skill", TRUE)>>
resp_patterns ==
    <<Pattern("responsibilities", FALSE), Pattern("duties", FALSE), Pattern("you will", FALSE)>>
benefit_patterns ==
    <<Pattern("benefits", FALSE), Pattern("perks", FALSE), Pattern("we offer", FALSE)>>

ExtractRequirements(text) == ExtractSection(text, "requirements", req_patterns, 10, 200)
ExtractResponsibilities(text) ==
    ExtractSection(text, "responsibilities", resp_patterns, 10, 200)
ExtractBenefits(text) == ExtractSection(text, "benefits", benefit_patterns, 5, 100)

-----------------------------------------------------------------------------
(* JobMatchingTool._extract_location *)

\* [^,\n]+(?:,\s*[^,\n]+)* whose first run ends at e: the end of the match
RECURSIVE LocationListEnd(_, _)
LocationListEnd(t, e) ==
    IF e < Len(t) /\ Ch(t, e + 1) = "," /\ SkipWsThenRun(t, e + 2, {",", "\n"}) # 0
    THEN LocationListEnd(t, RunEnd(t, SkipWsThenRun(t, e + 2, {",", "\n"}), {",", "\n"}))
    ELSE e

LabelledGroupStart(t, word, stop) ==
    GroupStartAt(t, Lower(t), FindHeading(t, word, FALSE, stop), word, FALSE, stop)

\* group 1 of  word:?\s*([^,\n]+)  or, with many, of the Location pattern
LabelledLocation(t, word, many) ==
    IF FindHeading(t, word, FALSE, {",", "\n"}) = 0 THEN None
    ELSE IF many
    THEN SubSeq(t, LabelledGroupStart(t, word, {",", "\n"}),
                LocationListEnd(t, RunEnd(t, LabelledGroupStart(t, word, {",", "\n"}),
                                          {",", "\n"})))
    ELSE SubSeq(t, LabelledGroupStart(t, word, {",", "\n"}),
                RunEnd(t, LabelledGroupStart(t, word, {",", "\n"}), {",", "\n"}))

\* [A-Z] and [a-z] under re.IGNORECASE
IsLetter(c) == c \in Letters \/ (\E i \in 1..26 : UpperLetters[i] = c)

\* first position from p on that holds no letter
LettersEnd(t, p) ==
    Min({i \in p..(Len(t) + 1) : i = Len(t) + 1 \/ ~IsLetter(Ch(t, i))})

\* \b between positions i - 1 and i
WordBoundary(t, i) ==
    (i > 1 /\ i - 1 <= Len(t) /\ IsWordChar(Ch(t, i - 1))) # (i <= Len(t) /\ IsWordChar(Ch(t, i)))

\* ,\s*[A-Z]{2}\b at position e: the position after the match, 0 if none
StateTail(t, e) ==
    IF e > Len(t) \/ Ch(t, e) # "," THEN 0
    ELSE IF /\ WsEnd(t, e + 1) + 1 <= Len(t)
            /\ IsLetter(Ch(t, WsEnd(t, e + 1)))
            /\ IsLetter(Ch(t, WsEnd(t, e + 1) + 1))
            /\ WordBoundary(t, WsEnd(t, e + 1) + 2)
         THEN WsEnd(t, e + 1) + 2
    ELSE 0

\* \b[A-Z][a-z]+ at p, then the tail: the position after the match
CityStateAt(t, p) ==
    IF WordBoundary(t, p) /\ LettersEnd(t, p) - p >= 2 THEN StateTail(t, LettersEnd(t, p))
    ELSE 0

\* \b([A-Z][a-z]+,\s*[A-Z]{2})\b
CityState(t) ==
    LET hits == {p \in 1..Len(t) : CityStateAt(t, p) # 0}
    IN  IF hits = {} THEN None ELSE SubSeq(t, Min(hits), CityStateAt(t, Min(hits)) - 1)

\* the second word of City Name, State, starting at w after the first ends at e
SecondWordAt(t, e, w) ==
    IF w > e /\ LettersEnd(t, w) - w >= 2 THEN StateTail(t, LettersEnd(t, w)) ELSE 0

CityNameStateAt(t, p) ==
    IF WordBoundary(t, p) /\ LettersEnd(t, p) - p >= 2
    THEN SecondWordAt(t, LettersEnd(t, p), WsEnd(t, LettersEnd(t, p)))
    ELSE 0

\* \b([A-Z][a-z]+\s+[A-Z][a-z]+,\s*[A-Z]{2})\b
CityNameState(t) ==
    LET hits == {p \in 1..Len(t) : CityNameStateAt(t, p) # 0}
    IN  IF hits = {} THEN None ELSE SubSeq(t, Min(hits), CityNameStateAt(t, Min(hits)) - 1)

\* group 1 of location_patterns[k], None when the pattern does not match
LocationGroup(t, k) ==
    CASE k = 1 -> LabelledLocation(t, "location", TRUE)
      [] k = 2 -> LabelledLocation(t, "based in", FALSE)
      [] k = 3 -> LabelledLocation(t, "office", FALSE)
      [] k = 4 -> LabelledLocation(t, "city", FALSE)
      [] k = 5 -> CityState(t)
      [] k = 6 -> CityNameState(t)

LocationAccepted(location) == Len(location) > 2 /\ Len(location) < 50

RECURSIVE LocationFrom(_, _)
LocationFrom(t, k) ==
    IF k > 6 THEN None
    ELSE IF LocationGroup(t, k) # None /\ LocationAccepted(StripWs(LocationGroup(t, k)))
         THEN StripWs(LocationGroup(t, k))
    ELSE LocationFrom(t, k + 1)

ExtractLocation(text) == LocationFrom(text, 1)

-----------------------------------------------------------------------------
(* JobMatchingTool._extract_salary; the pound and euro patterns are left    *)
(* out, the texts hold neither character                                    *)

\* first position from p on that holds neither a digit nor a comma
AmountEnd(t, p) ==
    Min({i \in p..(Len(t) + 1) : i = Len(t) + 1 \/ (Ch(t, i) \notin Digits /\ Ch(t, i) # ",")})

\* (?:\.\d{2})? at p: the position after it
CentsEnd(t, p) ==
    IF p + 2 <= Len(t) /\ Ch(t, p) = "." /\ Ch(t, p + 1) \in Digits /\ Ch(t, p + 2) \in Digits
    THEN p + 3 ELSE p

AfterDollar(t, e) == IF e <= Len(t) /\ Ch(t, e) = "$" THEN e + 1 ELSE e

\* the upper amount starting at e: the position after the match
UpperAmount(t, e, spaced) ==
    IF AmountEnd(t, e) = e THEN 0
    ELSE IF spaced THEN CentsEnd(t, AmountEnd(t, e)) ELSE AmountEnd(t, e)

\* the dash at e and what follows it
DashAndUpper(t, e, spaced) ==
    IF e > Len(t) \/ Ch(t, e) # "-" THEN 0
    ELSE UpperAmount(t, AfterDollar(t, IF spaced THEN WsEnd(t, e + 1) ELSE e + 1), spaced)

\* \$[\d,]+-\$?[\d,]+ at p, or with spaced the pattern with cents and spaces
DollarRangeAt(t, p, spaced) ==
    IF Ch(t, p) # "$" \/ AmountEnd(t, p + 1) = p + 1 THEN 0
    ELSE DashAndUpper(t, IF spaced THEN WsEnd(t, CentsEnd(t, AmountEnd(t, p + 1)))
                         ELSE AmountEnd(t, p + 1), spaced)

DollarRange(t, spaced) ==
    LET hits == {p \in 1..Len(t) : DollarRangeAt(t, p, spaced) # 0}
    IN  IF hits = {} THEN None
        ELSE SubSeq(t, Min(hits), DollarRangeAt(t, Min(hits), spaced) - 1)

\* the whole match of  word:?\s*([^\n]+)
LabelledLine(t, word) ==
    IF FindHeading(t, word, FALSE, {"\n"}) = 0 THEN None
    ELSE SubSeq(t, FindHeading(t, word, FALSE, {"\n"}),
                RunEnd(t, LabelledGroupStart(t, word, {"\n"}), {"\n"}))

\* match.group() of the k-th pattern that is kept, None when it does not match
SalaryMatch(t, k) ==
    CASE k = 1 -> DollarRange(t, FALSE)
      [] k = 2 -> DollarRange(t, TRUE)
      [] k = 3 -> LabelledLine(t, "salary")
      [] k = 4 -> LabelledLine(t, "pay")
      [] k = 5 -> LabelledLine(t, "compensation")

\* if '$' in salary or any(word in salary.lower() ...)
SalaryAccepted(salary) ==
    \/ Contains(salary, "$")
    \/ \E w \in {"salary", "pay", "compensation"} : Contains(Lower(salary), w)

RECURSIVE SalaryFrom(_, _)
SalaryFrom(t, k) ==
    IF k > 5 THEN None
    ELSE IF SalaryMatch(t, k) # None /\ SalaryAccepted(StripWs(SalaryMatch(t, k)))
         THEN StripWs(SalaryMatch(t, k))
    ELSE SalaryFrom(t, k + 1)

ExtractSalary(text) == SalaryFrom(text, 1)

-----------------------------------------------------------------------------
(* The keyword-table fields, the title and the description *)

UpperChar(c) ==
    IF c \in Letters THEN UpperLetters[CHOOSE i \in 1..26 : LowerLetters[i] = c] ELSE c

\* s.title(): a letter is upper-cased when no letter precedes it
RECURSIVE PyTitle(_, _)
PyTitle(s, i) ==
    IF i > Len(s) THEN ""
    ELSE (IF i > 1 /\ IsLetter(Ch(s, i - 1)) THEN LowerChar(Ch(s, i)) ELSE UpperChar(Ch(s, i)))
         \o PyTitle(s, i + 1)

Row(key, keywords) == [key |-> key, keywords |-> keywords]

employment_types ==
    <<Row("full-time", {"full-time", "full time", "fulltime", "permanent"}),
      Row("part-time", {"part-time", "part time", "parttime"}),
      Row("contract", {"contract", "contractor", "freelance", "temporary"}),
      Row("internship", {"intern", "internship", "trainee"}),
      Row("temporary", {"temp", "temporary", "seasonal"})>>

remote_indicators ==
    <<Row("remote", {"remote", "work from home", "wfh", "telecommute"}),
      Row("hybrid", {"hybrid", "flexible", "mixed"}),
      Row("onsite", {"on-site", "onsite", "office-based", "in-office"})>>

experience_levels ==
    <<Row("entry", {"entry", "junior", "graduate", "trainee", "0-2 years"}),
      Row("mid", {"mid", "intermediate", "2-5 years", "3-7 years"}),
      Row("senior", {"senior", "lead", "principal", "5+ years", "7+ years"}),
      Row("executive", {"director", "vp", "executive", "head of", "chief"})>>

RowMatches(text_lower, row) == \E keyword \in row.keywords : Contains(text_lower, keyword)

\* for key, keywords in table.items(): the first row with a keyword in the text
RECURSIVE FirstRowLast(_, _, _)
FirstRowLast(text_lower, table, i) ==
    IF i > Len(table) THEN None
    ELSE IF FirstRowLast(text_lower, table, i + 1) # None
         THEN FirstRowLast(text_lower, table, i + 1)
    ELSE IF RowMatches(text_lower, table[i]) THEN PyTitle(table[i].key, 1)
    ELSE None

RECURSIVE FirstRow(_, _, _)
FirstRow(text_lower, table, i) ==
    IF i > Len(table) THEN None
    ELSE IF RowMatches(text_lower, table[i]) THEN PyTitle(table[i].key, 1)
    ELSE FirstRow(text_lower, table, i + 1)

ExtractEmploymentType(text) == FirstRow(Lower(text), employment_types, 1)
ExtractRemoteOption(text) == FirstRow(Lower(text), remote_indicators, 1)
ExtractExperienceLevel(text) == FirstRow(Lower(text), experience_levels, 1)

role_words == {"engineer", "developer", "manager", "analyst", "consultant", "specialist"}

TitleAccepted(title_text, expected_title) ==
    \/ Truthy(expected_title) /\ PartialRatio(Lower(expected_title), Lower(title_text)) > 60
    \/ \E word \in role_words : Contains(Lower(title_text), word)

\* titles: the stripped texts of the elements the selectors h1, .job-title,
\* .position-title, [class*="title"], title select, in that order
RECURSIVE ExtractJobTitle(_, _, _)
ExtractJobTitle(titles, expected_title, i) ==
    IF i > Len(titles) THEN expected_title
    ELSE IF Len(titles[i]) > 5 /\ TitleAccepted(titles[i], expected_title) THEN titles[i]
    ELSE ExtractJobTitle(titles, expected_title, i + 1)

RECURSIVE LongSentences(_, _)
LongSentences(parts, i) ==
    IF i > Len(parts) THEN <<>>
    ELSE (IF Len(StripWs(parts[i])) > 20 THEN <<StripWs(parts[i])>> ELSE <<>>)
         \o LongSentences(parts, i + 1)

Sentences(text) ==
    SubSeq(LongSentences(Split(text, "."), 1), 1,
           Min({5, Len(LongSentences(Split(text, "."), 1))}))

Description(text) ==
    IF Sentences(text) = <<>> THEN None ELSE Join(Sentences(text), ". ") \o "."

-----------------------------------------------------------------------------
(* JobMatchingTool.extract_job_data *)

\* job_params.get(key)
ParamOrNone(params, key) == IF HasKey(params, key) THEN params[key] ELSE None

\* html_content is None: BeautifulSoup raises and the except clause answers
NoHtml == [html_content |-> None]

\* the parsed page: the title candidates and soup.get_text()
ParsedPage(titles, text) == [titles |-> titles, text |-> text]

JobDataWithoutDepartment(page, params) ==
    [title |-> ExtractJobTitle(page.titles, ParamOrNone(params, "job_title"), 1),
     company |-> ParamOrNone(params, "company_name"),
     location |-> ExtractLocation(page.text),
     employment_type |-> ExtractEmploymentType(page.text),
     salary_range |-> ExtractSalary(page.text),
     requirements |-> ExtractRequirements(page.text),
     responsibilities |-> ExtractResponsibilities(page.text),
     description |-> Description(page.text),
     benefits |-> ExtractBenefits(page.text),
     experience_level |-> ExtractExperienceLevel(page.text),
     remote_option |-> ExtractRemoteOption(page.text),
     posted_date |-> None,
     application_deadline |-> None]

JobData(page, params) ==
    [title |-> ExtractJobTitle(page.titles, ParamOrNone(params, "job_title"), 1),
     company |-> ParamOrNone(params, "company_name"),
     location |-> ExtractLocation(page.text),
     employment_type |-> ExtractEmploymentType(page.text),
     department |-> None,
     salary_range |-> ExtractSalary(page.text),
     requirements |-> ExtractRequirements(page.text),
     responsibilities |-> ExtractResponsibilities(page.text),
     description |-> Description(page.text),
     benefits |-> ExtractBenefits(page.text),
     experience_level |-> ExtractExperienceLevel(page.text),
     remote_option |-> ExtractRemoteOption(page.text),
     posted_date |-> None,
     application_deadline |-> None]

ExtractJobData(page, params) ==
    IF page = NoHtml
    THEN [success |-> FALSE, error |-> "object of type 'NoneType' has no len()",
          status |-> "job_data_extraction_failed"]
    ELSE [success |-> TRUE, job_data |-> JobData(page, params),
          extracted_text_length |-> Len(page.text), status |-> "job_data_extracted"]

-----------------------------------------------------------------------------
(* extract_job_data applied to posting pages *)

MaxLines == 2

XDLines ==
    {"Backend Engineer at Acme in Berlin",
     "Remote - Full-time - 5+ years",
     "Junior and intermediate welcome",
     "Location: Berlin, Germany",
     "Salary: $50,000-$60,000",
     "Requirements: SQL expert * Java expert * Go",
     "Benefits: Lunch - Snacks - Free gym membership",
     "Responsibilities: build the data pipelines",
     "Hybrid role. Austin, TX"}

\* more than ten items in one section
ManyItems ==
    "Skills:" \o Join([i \in 1..12 |-> "\n- Python skill " \o LowerLetters[i]], "")

\* items at the ends of the length bands
BandItems ==
    "Requirements:\n" \o Repeat("a", 199) \o "\n" \o Repeat("b", 200) \o "*" \o Repeat("c", 201)
    \o "\nBenefits:\n" \o Repeat("d", 99) \o "-" \o Repeat("e", 100) \o "\n" \o Repeat("f", 101)

XDTexts ==
    {Join(lines, "\n") : lines \in UNION {[1..n -> XDLines] : n \in 0..MaxLines}}
    \cup {ManyItems, BandItems}

XDTitleLists == {<<>>, <<"Careers", "Senior Backend Engineer (m/f/d)">>, <<"Open position">>}

XDPages == {ParsedPage(titles, text) : titles \in XDTitleLists, text \in XDTexts}

XDParams ==
    {[job_title |-> "backend engineer", company_name |-> "acme"],
     [company_name |-> "acme"]}

InitXD ==
    /\ OrchIdle
    /\ FCIdle /\ ELIdle /\ RSIdle /\ JLIdle /\ BMIdle /\ SJIdle /\ HJIdle
    /\ xd_page \in XDPages \cup {NoHtml}
    /\ xd_params \in XDParams
    /\ xd_result = NoResult
    /\ xd_log = <<>>
    /\ xd_pc = "call"

XD_Call ==
    /\ xd_pc = "call"
    /\ xd_result' = ExtractJobData(xd_page, xd_params)
    /\ xd_log' = Append(xd_log, [page |-> xd_page, params |-> xd_params,
                                 result |-> xd_result'])
    /\ xd_pc' = "ret"
    /\ UNCHANGED <<xd_page, xd_params>>
    /\ UNCHANGED <<orchVars, fcVars, elVars, rsVars, jlVars, bmVars, sjVars, hjVars>>

NextXD == XD_Call

SpecXD == InitXD /\ [][NextXD]_vars

JobRecordKeys ==
    {"title", "company", "location", "employment_type", "department", "salary_range",
     "requirements", "responsibilities", "description", "benefits", "experience_level",
     "remote_option", "posted_date", "application_deadline"}

\* none of the words occurs in the lower-cased text
NoWord(text, words) == \A w \in words : ~Contains(Lower(text), w)

TableWords(table) == UNION {table[i].keywords : i \in DOMAIN table}

AbsentWhenNoMatch(text, jd) ==
    /\ NoWord(text, {"requirement", "qualification", "skill"}) => jd.requirements = <<>>
    /\ NoWord(text, {"responsibilities", "duties", "you will"}) => jd.responsibilities = <<>>
    /\ NoWord(text, {"benefits", "perks", "we offer"}) => jd.benefits = <<>>
    /\ NoWord(text, TableWords(employment_types)) => jd.employment_type = None
    /\ NoWord(text, TableWords(remote_indicators)) => jd.remote_option = None
    /\ NoWord(text, TableWords(experience_levels)) => jd.experience_level = None
    /\ NoWord(text, {"location", "based in", "office", "city", ","}) => jd.location = None
    /\ NoWord(text, {"$", "salary", "pay", "compensation"}) => jd.salary_range = None
    /\ Len(text) <= 20 => jd.description = None
    /\ jd.department = None /\ jd.posted_date = None /\ jd.application_deadline = None

\* C21: extract_job_data does not fail for a missing section: text without a
\* Requirements, Qualifications or Skills heading gives requirements = <<>>,
\* every other field without a match holds its absent value, and every
\* successful result holds all fourteen keys of the job record.
MissingSectionNoError ==
    xd_pc = "ret" =>
        /\ xd_page # NoHtml => xd_result.success
        /\ xd_result.success =>
              /\ DOMAIN xd_result.job_data = JobRecordKeys
              /\ AbsentWhenNoMatch(xd_page.text, xd_result.job_data)
              /\ xd_page.titles = <<>> =>
                    xd_result.job_data.title = ParamOrNone(xd_params, "job_title")

\* a posting with no section heading, no location and no salary
MissingSectionNoErrorWitness ==
    /\ xd_pc = "ret"
    /\ xd_result.success
    /\ xd_page.text = "Backend Engineer at Acme in Berlin"
    /\ xd_result.job_data.requirements = <<>>
    /\ xd_result.job_data.location = None
    /\ xd_result.job_data.salary_range = None

\* the stripped pieces of the first section one of the patterns finds
SectionParts(text, patterns) == SectionItems(text, patterns, 1, -1, Len(text) + 1)

FirstTenWithin(parts, band) == First10(SelectSeq(parts, LAMBDA x : Len(x) \in band))

ItemsWithin(text, jd, long_band, short_band) ==
    /\ jd.requirements = FirstTenWithin(SectionParts(text, req_patterns), long_band)
    /\ jd.responsibilities = FirstTenWithin(SectionParts(text, resp_patterns), long_band)
    /\ jd.benefits = FirstTenWithin(SectionParts(text, benefit_patterns), short_band)
    /\ Len(jd.requirements) <= 10 /\ Len(jd.responsibilities) <= 10 /\ Len(jd.benefits) <= 10

\* C22: requirements, responsibilities and benefits each hold at most 10
\* items, namely the pieces of the section, in order, whose stripped length
\* lies in 10..200 (requirements, responsibilities) or 5..100 (benefits).
ItemBands ==
    (xd_pc = "ret" /\ xd_result.success) =>
        ItemsWithin(xd_page.text, xd_result.job_data, 10..200, 5..100)

\* C22 as the code has it: the bands are 11..199 and 6..99.
ItemBandsStrict ==
    (xd_pc = "ret" /\ xd_result.success) =>
        ItemsWithin(xd_page.text, xd_result.job_data, 11..199, 6..99)

\* of the items of 199, 200 and 201 characters and of 99, 100 and 101
\* characters only the shortest is kept
ItemBandsStrictWitness ==
    /\ xd_pc = "ret"
    /\ xd_result.success
    /\ xd_page.text = BandItems
    /\ xd_result.job_data.requirements = <<Repeat("a", 199)>>
    /\ xd_result.job_data.benefits = <<Repeat("d", 99)>>

\* the key of the first row of the table one of whose keywords occurs
FirstKey(text, table) ==
    LET hits == {i \in DOMAIN table : RowMatches(Lower(text), table[i])}
    IN  IF hits = {} THEN None ELSE table[Min(hits)].key

TakesFirstEntry(text, jd) ==
    /\ Lower(jd.employment_type) = Lower(FirstKey(text, employment_types))
    /\ Lower(jd.remote_option) = Lower(FirstKey(text, remote_indicators))
    /\ Lower(jd.experience_level) = Lower(FirstKey(text, experience_levels))

ScenarioC(text) ==
    Contains(text, "Remote") /\ Contains(text, "Full-time") /\ Contains(text, "5+ years")

\* C23: a posting text that contains "Remote", "Full-time" and "5+ years"
\* gives remote_option "Remote", employment_type "Full-time" and
\* experience_level "Senior"; each keyword-table field takes the first table
\* entry one of whose keywords occurs in the lower-cased text.
KeywordFields ==
    (xd_pc = "ret" /\ xd_result.success) =>
        /\ TakesFirstEntry(xd_page.text, xd_result.job_data)
        /\ ScenarioC(xd_page.text) =>
              /\ xd_result.job_data.remote_option = "Remote"
              /\ xd_result.job_data.employment_type = "Full-time"
              /\ xd_result.job_data.experience_level = "Senior"

TitleCased ==
    {None, "Full-Time", "Part-Time", "Contract", "Internship", "Temporary", "Remote",
     "Hybrid", "Onsite", "Entry", "Mid", "Senior", "Executive"}

\* C23 as the code has it: employment_type is "Full-Time", experience_level
\* is "Senior" unless a keyword of the entry or mid row occurs, and the value
\* of a field is the key of its first matching entry in title case.
KeywordFieldsTitleCase ==
    (xd_pc = "ret" /\ xd_result.success) =>
        /\ TakesFirstEntry(xd_page.text, xd_result.job_data)
        /\ {xd_result.job_data.employment_type, xd_result.job_data.remote_option,
            xd_result.job_data.experience_level} \subseteq TitleCased
        /\ ScenarioC(xd_page.text) =>
              /\ xd_result.job_data.remote_option = "Remote"
              /\ xd_result.job_data.employment_type = "Full-Time"
              /\ NoWord(xd_page.text, experience_levels[1].keywords
                                        \cup experience_levels[2].keywords) =>
                    xd_result.job_data.experience_level = "Senior"

\* the scenario's text and nothing else
KeywordFieldsTitleCaseWitness ==
    /\ xd_pc = "ret"
    /\ xd_result.success
    /\ xd_page.text = "Remote - Full-time - 5+ years"
    /\ xd_result.job_data.remote_option = "Remote"
    /\ xd_result.job_data.employment_type = "Full-Time"
    /\ xd_result.job_data.experience_level = "Senior"

-----------------------------------------------------------------------------
(* extract_job_data called again and again on one JobMatchingTool, with a   *)
(* call of find_careers_link in between                                     *)

MaxCalls == 3

XTPages ==
    {NoHtml,
     ParsedPage(<<>>, "Requirements: SQL expert * Java expert * Go"),
     ParsedPage(<<"Senior Backend Engineer (m/f/d)">>, "Remote - Full-time - 5+ years")}

InitXT ==
    /\ OrchIdle
    /\ ELIdle /\ RSIdle /\ JLIdle /\ BMIdle /\ SJIdle /\ HJIdle
    /\ fc_html = <<[href |-> "/careers", text |-> "Careers"]>>
    /\ fc_base = "https://acme.com"
    /\ fc_result = NoResult
    /\ fc_pc = "call"
    /\ xd_page \in XTPages
    /\ xd_params \in XDParams
    /\ xd_result = NoResult
    /\ xd_log = <<>>
    /\ xd_pc = "call"

\* the caller comes back with the same or another page
XT_Again ==
    /\ xd_pc = "ret"
    /\ Len(xd_log) < MaxCalls
    /\ xd_page' \in XTPages
    /\ xd_params' \in XDParams
    /\ xd_pc' = "call"
    /\ UNCHANGED <<xd_result, xd_log>>
    /\ UNCHANGED <<orchVars, fcVars, elVars, rsVars, jlVars, bmVars, sjVars, hjVars>>

NextXT == XD_Call \/ XT_Again \/ FC_Call

SpecXT == InitXT /\ [][NextXT]_vars

====
